---- MODULE Spec2Model ----
(***************************************************************************)
(* Tile-synchronised 3D layer pipeline of 3d_scene_editor.                 *)
(*                                                                         *)
(* Two components are modelled, each from its source:                      *)
(*   - ModelLayer (tile cache, tile requests, model cache, model           *)
(*     downloads, populateScene, render, handleClick);                     *)
(*   - CustomVectorSource with its TileFetcher and decode Worker.          *)
(* The two share no state in the program (ModelLayer requests its tiles    *)
(* through requestVectorTile, not through CustomVectorSource), so a        *)
(* behaviour explores one of them, chosen by `component` in Init.          *)
(***************************************************************************)
EXTENDS Integers, Sequences, FiniteSets, TLC

\* ------------------------------------------------------------------ bounds
MaxTileCache == 1        \* opts.maxTileCache of the layer / source under test
MaxTileEntries == 2      \* tile cache entries ever created in one behaviour
MaxVisible == 2          \* tiles returned by one coveringTiles call
MaxFetcherMax == 2       \* largest MAX a TileFetcher is constructed with
MaxCvsEntries == 3       \* CustomVectorSource entries ever created
MaxAssets == 3           \* InstanceLayer: asset URLs of a layer
MaxFeatures == 10        \* InstanceLayer: features of a tile's source layer
MaxCount == 2            \* InstancedGroupMesh: largest capacity constructed directly
MaxEditObjects == 2      \* EditLayer: objects added to scenes in one behaviour
MaxDist == 2             \* largest distance a ray test reports
MaxPlaneZ == 1           \* largest |planeZ| a shadow matrix is built for
MaxEditorLoads == 3      \* MapView: runs of addEditorLayers (style loads)
MaxEditLayers == 2       \* MapView: edit layers ever added

\* ------------------------------------------------------------- input data
TileKeys == {"t1", "t2"}
ModelNames == {"mA", "mB"}

\* The features a tile of the source layer decodes to (parseTileInfo keeps only
\* features with modelName, modelUrl, modelType, textureName and textureUrl).
TileObjects(k) ==
    IF k = "t1" THEN << [id |-> "f1", modelName |-> "mA"],
                        [id |-> "f2", modelName |-> "mB"] >>
    ELSE << [id |-> "f3", modelName |-> "mA"] >>

\* opts.maxModelCache of the layer under test: one slot fewer than there are
\* model names, so that a tile that uses every model overflows the cache.
MaxModelCache == Cardinality(ModelNames) - 1

\* Model cache entries ever created in one behaviour.
MaxModelEntries == Cardinality(ModelNames)

\* Number of THREE.Mesh nodes in the asset a model URL loads to.
MeshCount(m) == IF m = "mA" THEN 1 ELSE 2

\* Sequences of distinct tile keys, as coveringTiles returns them.
VisibleTileLists ==
    { q \in UNION { [1..n -> TileKeys] : n \in 0..MaxVisible } :
        \A i, j \in 1..Len(q) : i # j => q[i] # q[j] }

VARIABLES
    component,      \* "ModelLayer" | "CustomVectorSource"
    \* ---- ModelLayer
    added,          \* map, camera and renderer are set (onAdd .. onRemove)
    visible,        \* ModelLayer.visible
    pickEnabled,    \* ModelLayer.pickEnabled
    sun,            \* ModelLayer.sun is set
    tileCache,      \* LRU order, least recently used first: <<[key, id]>>
    tiles,          \* every TileCacheEntry object ever created, by id; req tells how
                    \* its request ended: pending, resolved, rejected, parse_failed;
                    \* scenes counts the scenes assigned to its sceneTile
    modelCache,     \* LRU order: <<[key, id]>>
    models,         \* every ModelCacheEntry object ever created, by id
    tileReqs,       \* per tile key: requestAndParseTile calls so far
    tileEvictions,  \* per tile key: times the key left the tile cache
    modelDls,       \* per model name: downloadModel calls so far
    modelEvictions, \* per model name: times the key left the model cache
    \* ---- CustomVectorSource, TileFetcher, Worker
    MAX,            \* TileFetcher.MAX
    maxTileCache,   \* opts.maxTileCache of the CustomVectorSource
    active,         \* TileFetcher.active
    queue,          \* TileFetcher.queue: the entry each queued job fetches for
    cvsCache,       \* CustomVectorSource.tileCache, LRU order: <<[key, id]>>
    cvsTiles,       \* every CustomVectorTileData object ever created, by id
    workerInbox,    \* messages posted to the worker, oldest first: <<[key, ent]>>
    workerOutbox    \* results the worker posted back, oldest first: <<[key, ent]>>

VARIABLES
    \* ---- InstanceLayer (one covering tile, its vector tile loaded)
    ilAssets,       \* mapObj3d values in key order (baked assets)
    ilFeatures,     \* layer.features.length of the tile
    ilScene,        \* the tile's entry in InstanceLayer.tileCache and the
                    \* InstancedGroupMesh objects of its scene
    \* ---- InstancedGroupMesh used on its own
    igms            \* the InstancedGroupMesh last constructed, << >> if none

VARIABLES
    \* ---- InstanceLayer attached to the CustomVectorSource above
    ilAdded,        \* InstanceLayer.map is set (onAdd .. onRemove)
    ilLoading,      \* a loadModelFromGlb promise of onAdd is pending
    ilSource,       \* InstanceLayer.vectorSource is set and its hook installed
    ilTileCache     \* InstanceLayer.tileCache: per tile key the instanced
                    \* groups of its scene and the number of scenes created
                    \* for the key since it last had no entry

ilAttached == << ilAdded, ilLoading, ilSource, ilTileCache >>

ilVars == << ilAssets, ilFeatures, ilScene, igms, ilAttached >>

VARIABLES
    \* ---- EditLayer
    elAdded,        \* map, camera and renderer are set (onAdd .. onRemove)
    elPickEnabled,  \* EditLayer.pickEnabled
    elModelCache,   \* keys of EditLayer.modelCache
    elTiles,        \* EditLayer.tileCache: per tile key the children of its
                    \* scene, << >> when the key has no entry
    elScenes        \* per tile key: scenes getTileData created for it

elVars == << elAdded, elPickEnabled, elModelCache, elTiles, elScenes >>

VARIABLES
    \* ---- WaterLayer (attached to the CustomVectorSource above)
    wlAdded,        \* map, camera and renderer are set (onAdd .. onRemove)
    wlListening,    \* the moveend listener of onAdd is registered
    wlSource,       \* WaterLayer.vectorSource is set
    wlSourceLayer,  \* WaterLayer.sourceLayer
    wlDirty,        \* WaterLayer.isRebuildWaterGeometry
    wlRootKey,      \* WaterLayer.tilekeyToDrawWater, "" before the first rebuild
    wlGeometry,     \* WaterLayer.waterGeometry: the merged polygons
    wlScene         \* the water meshes of WaterLayer.mainScene

wlVars == << wlAdded, wlListening, wlSource, wlSourceLayer, wlDirty, wlRootKey, wlGeometry,
            wlScene >>

VARIABLES
    \* ---- shadow projection (ShadowHelper.buildShadowMatrix, MaplibreShadowMesh)
    shSunDir,       \* the sunDir argument
    shPlaneZ,       \* the planeZ argument
    shBuilt,        \* the matrix below was written by one of the two functions
    shMatrix,       \* `out` of buildShadowMatrix / the mesh's matrix after update
    shImage         \* the last point transformed by the matrix, before the divide

shVars == << shSunDir, shPlaneZ, shBuilt, shMatrix, shImage >>

VARIABLES
    \* ---- MapView: the editor layers it creates and keeps on the map
    activeLayerId,    \* the activeLayerId prop, "" when it is not given
    activeLayerIdRef, \* activeLayerIdRef.current
    overlayLayers,    \* every OverlayLayer constructed so far, in order
    outlineLayers,    \* every OutlineLayer constructed so far, in order
    modelLayers,      \* every base ModelLayer constructed so far, in order
    overlayLayerRef,  \* overlayLayerRef.current as an index of overlayLayers, 0 = null
    outlineLayerRef,  \* outlineLayerRef.current as an index of outlineLayers, 0 = null
    modelLayerRef,    \* modelLayerRef.current as an index of modelLayers, 0 = null
    editLayersRef,    \* editLayersRef.current: the edit layers, in order
    generatedIds      \* how many ids generateId() has returned

mvVars == << activeLayerId, activeLayerIdRef, overlayLayers, outlineLayers, modelLayers,
            overlayLayerRef, outlineLayerRef, modelLayerRef, editLayersRef, generatedIds >>

\* The state of the components that this module adds to the two above.
otherVars == << ilVars, elVars, wlVars, shVars, mvVars >>

mlVars == << added, visible, pickEnabled, sun, tileCache, tiles, modelCache, models,
             tileReqs, tileEvictions, modelDls, modelEvictions >>

cvsVars == << MAX, maxTileCache, active, queue, cvsCache, cvsTiles, workerInbox, workerOutbox >>

vars == << component, mlVars, cvsVars, otherVars >>

\* ------------------------------------------------------------- LRU cache
\* lru-cache: has() leaves the recency alone, get() makes the key the most
\* recent, set() of a new key on a full cache evicts the least recent one,
\* set() of a present key replaces its value; clear() empties the cache.
\* Every value that leaves the cache is handed to the dispose hook.
Has(cache, k) == \E i \in 1..Len(cache) : cache[i].key = k

IdOf(cache, k) == (CHOOSE c \in {cache[i] : i \in 1..Len(cache)} : c.key = k).id

CachedIds(cache) == {cache[i].id : i \in 1..Len(cache)}

Without(cache, k) == SelectSeq(cache, LAMBDA c : c.key # k)

Get(cache, k) ==
    IF Has(cache, k) THEN Append(Without(cache, k), [key |-> k, id |-> IdOf(cache, k)])
    ELSE cache

\* The entries set(k, ..) removes from a cache of capacity max.
SetEvicts(cache, max, k) ==
    IF Has(cache, k) THEN << [key |-> k, id |-> IdOf(cache, k)] >>
    ELSE IF Len(cache) >= max THEN << Head(cache) >>
    ELSE << >>

Set(cache, max, k, id) ==
    LET kept == IF Has(cache, k) THEN Without(cache, k)
                ELSE IF Len(cache) >= max THEN Tail(cache)
                ELSE cache
    IN  Append(kept, [key |-> k, id |-> id])

\* ------------------------------------------------- ModelLayer: dispose hooks
\* tileCache dispose hook.
TileDispose(t) ==
    [t EXCEPT !.stateDownload = IF @ = "downloading" THEN "disposed" ELSE @]

\* modelCache dispose hook.
ModelDispose(m) ==
    [m EXCEPT !.stateDownload = IF @ = "downloading" THEN "disposed" ELSE @]

RECURSIVE DisposeTiles(_, _)
DisposeTiles(heap, gone) ==
    IF gone = << >> THEN heap
    ELSE DisposeTiles([heap EXCEPT ![Head(gone).id] = TileDispose(@)], Tail(gone))

RECURSIVE DisposeModels(_, _)
DisposeModels(heap, gone) ==
    IF gone = << >> THEN heap
    ELSE DisposeModels([heap EXCEPT ![Head(gone).id] = ModelDispose(@)], Tail(gone))

RECURSIVE CountEvictions(_, _)
CountEvictions(counts, gone) ==
    IF gone = << >> THEN counts
    ELSE CountEvictions([counts EXCEPT ![Head(gone).key] = @ + 1], Tail(gone))

\* ------------------------------------------------ ModelLayer: ensureModels
NewModelEntry(name) ==
    [name |-> name, stateDownload |-> "downloading", meshes |-> 0, dl |-> "pending"]

\* Mutant of NeedsDownload: downloads again until the cached model is loaded.
NeedsDownloadUntilLoaded(mc, ms, name) ==
    ~Has(mc, name) \/ ms[IdOf(mc, name)].stateDownload # "loaded"

\* ensureModels starts a download for a model name the cache does not hold.
NeedsDownload(mc, ms, name) == ~Has(mc, name)

RECURSIVE EnsureModels(_, _)
EnsureModels(s, objs) ==
    IF objs = << >> THEN s
    ELSE
      LET name == Head(objs).modelName IN
      IF ~NeedsDownload(s.mc, s.ms, name) THEN EnsureModels(s, Tail(objs))
      ELSE
        LET gone == SetEvicts(s.mc, MaxModelCache, name)
            id == Len(s.ms) + 1
            s2 == [s EXCEPT
                     !.ms = Append(DisposeModels(s.ms, gone), NewModelEntry(name)),
                     !.mc = Set(s.mc, MaxModelCache, name, id),
                     !.mdl = [@ EXCEPT ![name] = @ + 1],
                     !.mev = CountEvictions(@, SelectSeq(gone, LAMBDA g : g.key # name))]
        IN  EnsureModels(s2, Tail(objs))

\* ----------------------------------------------- ModelLayer: populateScene
RECURSIVE Repeat(_, _)
Repeat(x, n) == IF n = 0 THEN << >> ELSE << x >> \o Repeat(x, n - 1)

\* populateScene returns at once when the scene has as many children as the
\* tile has features.
AlreadyPopulated(t) == Len(t.children) = Len(TileObjects(t.key))

\* stateDownload of the entry modelCache.get(name) returns, "absent" if none.
ModelStateAt(mc, ms, name) ==
    IF Has(mc, name) THEN ms[IdOf(mc, name)].stateDownload ELSE "absent"

\* Mutant of HasChildNamed: the scene is not searched for the feature id.
NoChildNamed(children, n) == FALSE

\* tile.sceneTile.getObjectByName(modelId)
HasChildNamed(children, n) == \E i \in 1..Len(children) : children[i] = n

\* A feature is placed when its model entry is cached and loaded.
ModelReady(mc, ms, name) == Has(mc, name) /\ ms[IdOf(mc, name)].stateDownload = "loaded"

RECURSIVE PlaceObjects(_, _, _)
PlaceObjects(s, e, objs) ==
    IF objs = << >> THEN s
    ELSE
      LET o == Head(objs)
          mc2 == Get(s.mc, o.modelName)
      IN
      IF o.id = "" THEN PlaceObjects(s, e, Tail(objs))
      ELSE IF ~ModelReady(s.mc, s.ms, o.modelName)
        THEN PlaceObjects([s EXCEPT !.mc = mc2], e, Tail(objs))
      ELSE IF HasChildNamed(s.ts[e].children, o.id)
        THEN PlaceObjects([s EXCEPT !.mc = mc2], e, Tail(objs))
      ELSE
        LET meshes == s.ms[IdOf(s.mc, o.modelName)].meshes
            s2 == [s EXCEPT !.mc = mc2,
                            !.ts[e].children = @ \o Repeat("shadow", meshes) \o << o.id >>,
                            !.placed = @ \cup {[tile |-> e, id |-> o.id,
                                                model |-> ModelStateAt(s.mc, s.ms, o.modelName)]}]
        IN  PlaceObjects(s2, e, Tail(objs))

PopulateScene(s, e) ==
    LET t == s.ts[e] IN
    IF ~t.hasScene \/ ~t.hasObjects \/ ~t.hasOTID THEN s
    ELSE IF AlreadyPopulated(t) THEN s
    ELSE PlaceObjects(s, e, TileObjects(t.key))

\* ------------------------------------------------- ModelLayer: ensureTiles
NewTileEntry(k) ==
    [key |-> k, state |-> "preparing", stateDownload |-> "downloading",
     hasObjects |-> FALSE, hasOTID |-> FALSE, hasScene |-> FALSE, children |-> << >>,
     scenes |-> 0, req |-> "pending"]

\* Mutant of NeedsRequest: a cached entry in state error is requested again.
NeedsRequestRetryingErrors(tc, ts, k) ==
    ~Has(tc, k) \/ ts[IdOf(tc, k)].state = "error"

\* ensureTiles creates an entry and starts a request for a key the cache lacks.
NeedsRequest(tc, ts, k) == ~Has(tc, k)

\* Mutant of RenderEligible: only the download state is looked at.
RenderEligibleByDownload(t) == t.stateDownload = "loaded"

\* ensureTiles hands an entry to ensureModels, populateScene and the renderer.
RenderEligible(t) == t.state = "loaded" /\ t.hasScene /\ t.hasOTID

RECURSIVE EnsureTiles(_, _)
EnsureTiles(s, keys) ==
    IF keys = << >> THEN s
    ELSE
      LET k == Head(keys) IN
      IF NeedsRequest(s.tc, s.ts, k) THEN
        LET gone == SetEvicts(s.tc, MaxTileCache, k)
            id == Len(s.ts) + 1
            s2 == [s EXCEPT
                     !.ts = Append(DisposeTiles(s.ts, gone), NewTileEntry(k)),
                     !.tc = Set(s.tc, MaxTileCache, k, id),
                     !.treq = [@ EXCEPT ![k] = @ + 1],
                     !.tev = CountEvictions(@, SelectSeq(gone, LAMBDA g : g.key # k))]
        IN  EnsureTiles(s2, Tail(keys))
      ELSE
        LET e == IdOf(s.tc, k)
            s1 == [s EXCEPT !.tc = Get(s.tc, k)]
        IN
        IF RenderEligible(s1.ts[e]) THEN
          LET s2 == IF s1.ts[e].hasObjects
                    THEN EnsureModels(s1, TileObjects(s1.ts[e].key))
                    ELSE s1
              s3 == PopulateScene(s2, e)
              s4 == [s3 EXCEPT !.tried = @ \cup {e},
                               !.result = IF Len(s3.ts[e].children) > 0
                                          THEN @ \cup {e} ELSE @]
          IN  EnsureTiles(s4, Tail(keys))
        ELSE EnsureTiles(s1, Tail(keys))

MLState ==
    [tc |-> tileCache, ts |-> tiles, mc |-> modelCache, ms |-> models,
     treq |-> tileReqs, tev |-> tileEvictions, mdl |-> modelDls, mev |-> modelEvictions,
     tried |-> {}, result |-> {}, placed |-> {}]

WithinBounds(s) == Len(s.ts) <= MaxTileEntries /\ Len(s.ms) <= MaxModelEntries

\* ------------------------------------------------------ ModelLayer actions
\* The entries render() passes to renderer.render when the covering tiles are
\* `keys`: those ensureTiles returns that have an overscaled tile id and a scene.
RenderPass(keys) ==
    LET s == EnsureTiles(MLState, keys)
    IN  {e \in s.result : s.ts[e].hasOTID /\ s.ts[e].hasScene}

\* The entries that render() calls populateScene on.
PopulateCalls(keys) == EnsureTiles(MLState, keys).tried

\* The placements render() makes, each with the stateDownload its model's cache
\* entry had when the clone was added to the scene.
Placements(keys) == EnsureTiles(MLState, keys).placed

\* render(): ensureTiles over the covering tiles, then one render pass per
\* returned entry that has an overscaled tile id and a scene.
Render(keys) ==
    /\ component = "ModelLayer"
    /\ added /\ visible
    /\ LET s == EnsureTiles(MLState, keys) IN
       /\ WithinBounds(s)
       /\ tileCache' = s.tc
       /\ tiles' = s.ts
       /\ modelCache' = s.mc
       /\ models' = s.ms
       /\ tileReqs' = s.treq
       /\ tileEvictions' = s.tev
       /\ modelDls' = s.mdl
       /\ modelEvictions' = s.mev
    /\ UNCHANGED << cvsVars, otherVars, component, added, visible, pickEnabled, sun >>

\* The entries handleClick ray-tests: cached, with a scene and a tile id.
RayTestable(t) == t.hasScene /\ t.hasOTID

RECURSIVE ClickTiles(_, _)
ClickTiles(s, keys) ==
    IF keys = << >> THEN s
    ELSE
      LET k == Head(keys) IN
      IF ~Has(s.tc, k) THEN ClickTiles(s, Tail(keys))
      ELSE
        LET e == IdOf(s.tc, k)
            s1 == [s EXCEPT !.tc = Get(s.tc, k)]
        IN  IF RayTestable(s.ts[e])
            THEN ClickTiles([s1 EXCEPT !.result = @ \cup {e}], Tail(keys))
            ELSE ClickTiles(s1, Tail(keys))

\* The entries handleClick passes to raycaster.intersectObjects.
RayTests(keys) == ClickTiles(MLState, keys).result

\* handleClick: one ray test per visible tile whose entry has a scene.
HandleClick(keys) ==
    /\ component = "ModelLayer"
    /\ added /\ visible /\ pickEnabled
    /\ LET s == ClickTiles(MLState, keys) IN
       /\ tileCache' = s.tc
    /\ UNCHANGED << cvsVars, otherVars, component, added, visible, pickEnabled, sun, tiles, modelCache, models,
                    tileReqs, tileEvictions, modelDls, modelEvictions >>

\* requestAndParseTile after `await requestVectorTile` resolved. The buffer
\* either fails to parse, lacks the source layer, or decodes to features.
ParseOutcomes == {"ok", "nolayer", "parse_error"}

\* The catch handler ensureTiles attaches to requestAndParseTile.
TileRequestFailed(t) == [t EXCEPT !.state = "error", !.stateDownload = "loaded"]

\* Mutant of SkipsDisposed: the disposed flag is not looked at.
SkipsNothing(t) == FALSE

\* The guard requestAndParseTile applies once the buffer has arrived.
SkipsDisposed(t) == t.stateDownload = "disposed"

\* Mutant of TileRequestResolved: the scene and the tile id are assigned before
\* the source layer is looked for.
TileRequestResolvedSceneFirst(t, outcome, withSun) ==
    LET scene == IF withSun THEN << "light_group", "shadow_group" >>
                 ELSE << "light_group" >>
    IN
    IF SkipsDisposed(t) THEN t
    ELSE IF outcome = "parse_error" THEN TileRequestFailed(t)
    ELSE IF outcome = "nolayer"
      THEN [t EXCEPT !.hasOTID = TRUE, !.hasScene = TRUE, !.children = scene,
                     !.scenes = @ + 1,
                     !.state = "not-support", !.stateDownload = "loaded"]
    ELSE [t EXCEPT !.hasObjects = TRUE, !.hasOTID = TRUE, !.hasScene = TRUE,
                   !.children = scene, !.scenes = @ + 1,
                   !.state = "loaded", !.stateDownload = "loaded"]

TileRequestResolved(t, outcome, withSun) ==
    IF SkipsDisposed(t) THEN t
    ELSE IF outcome = "parse_error" THEN TileRequestFailed(t)
    ELSE IF outcome = "nolayer"
      THEN [t EXCEPT !.state = "not-support", !.stateDownload = "loaded"]
    ELSE [t EXCEPT !.hasObjects = TRUE, !.hasOTID = TRUE, !.hasScene = TRUE,
                   !.scenes = @ + 1,
                   !.children = IF withSun THEN << "light_group", "shadow_group" >>
                                ELSE << "light_group" >>,
                   !.state = "loaded", !.stateDownload = "loaded"]

RequestResolve(e, outcome) ==
    /\ component = "ModelLayer"
    /\ e \in 1..Len(tiles)
    /\ tiles[e].req = "pending"
    /\ tiles' = [tiles EXCEPT ![e] =
                   [TileRequestResolved(@, outcome, sun) EXCEPT
                      !.req = IF ~SkipsDisposed(tiles[e]) /\ outcome = "parse_error"
                              THEN "parse_failed" ELSE "resolved"]]
    /\ UNCHANGED << cvsVars, otherVars, component, added, visible, pickEnabled, sun, tileCache, modelCache,
                    models, tileReqs, tileEvictions, modelDls, modelEvictions >>

\* requestVectorTile rejected (network error).
RequestReject(e) ==
    /\ component = "ModelLayer"
    /\ e \in 1..Len(tiles)
    /\ tiles[e].req = "pending"
    /\ tiles' = [tiles EXCEPT ![e] = [TileRequestFailed(@) EXCEPT !.req = "rejected"]]
    /\ UNCHANGED << cvsVars, otherVars, component, added, visible, pickEnabled, sun, tileCache, modelCache,
                    models, tileReqs, tileEvictions, modelDls, modelEvictions >>

\* downloadModel resolved: the then-handler up to `await loadAsync(textureUrl)`.
ModelDownloaded(m) ==
    IF m.stateDownload = "disposed" THEN [m EXCEPT !.dl = "done"]
    ELSE [m EXCEPT !.meshes = MeshCount(m.name), !.dl = "texture"]

\* The then-handler after the texture load settled, either way.
ModelTextured(m) == [m EXCEPT !.stateDownload = "loaded", !.dl = "done"]

\* The catch handler of the download chain.
ModelDownloadFailed(m) == [m EXCEPT !.stateDownload = "loaded", !.dl = "done"]

DownloadResolve(i) ==
    /\ component = "ModelLayer"
    /\ i \in 1..Len(models)
    /\ models[i].dl = "pending"
    /\ models' = [models EXCEPT ![i] = ModelDownloaded(@)]
    /\ UNCHANGED << cvsVars, otherVars, component, added, visible, pickEnabled, sun, tileCache, tiles,
                    modelCache, tileReqs, tileEvictions, modelDls, modelEvictions >>

TextureSettle(i) ==
    /\ component = "ModelLayer"
    /\ i \in 1..Len(models)
    /\ models[i].dl = "texture"
    /\ models' = [models EXCEPT ![i] = ModelTextured(@)]
    /\ UNCHANGED << cvsVars, otherVars, component, added, visible, pickEnabled, sun, tileCache, tiles,
                    modelCache, tileReqs, tileEvictions, modelDls, modelEvictions >>

DownloadReject(i) ==
    /\ component = "ModelLayer"
    /\ i \in 1..Len(models)
    /\ models[i].dl = "pending"
    /\ models' = [models EXCEPT ![i] = ModelDownloadFailed(@)]
    /\ UNCHANGED << cvsVars, otherVars, component, added, visible, pickEnabled, sun, tileCache, tiles,
                    modelCache, tileReqs, tileEvictions, modelDls, modelEvictions >>

OnAdd ==
    /\ component = "ModelLayer"
    /\ ~added
    /\ added' = TRUE
    /\ UNCHANGED << cvsVars, otherVars, component, visible, pickEnabled, sun, tileCache, tiles, modelCache,
                    models, tileReqs, tileEvictions, modelDls, modelEvictions >>

\* onRemove: tileCache.clear() and modelCache.clear() dispose every entry.
OnRemove ==
    /\ component = "ModelLayer"
    /\ added
    /\ added' = FALSE
    /\ tiles' = DisposeTiles(tiles, tileCache)
    /\ models' = DisposeModels(models, modelCache)
    /\ tileEvictions' = CountEvictions(tileEvictions, tileCache)
    /\ modelEvictions' = CountEvictions(modelEvictions, modelCache)
    /\ tileCache' = << >>
    /\ modelCache' = << >>
    /\ UNCHANGED << cvsVars, otherVars, component, visible, pickEnabled, sun, tileReqs, modelDls >>

SetVisible(v) ==
    /\ component = "ModelLayer"
    /\ visible' = v
    /\ UNCHANGED << cvsVars, otherVars, component, added, pickEnabled, sun, tileCache, tiles, modelCache,
                    models, tileReqs, tileEvictions, modelDls, modelEvictions >>

SetPickEnabled(b) ==
    /\ component = "ModelLayer"
    /\ pickEnabled' = b
    /\ UNCHANGED << cvsVars, otherVars, component, added, visible, sun, tileCache, tiles, modelCache, models,
                    tileReqs, tileEvictions, modelDls, modelEvictions >>

SetSunPos ==
    /\ component = "ModelLayer"
    /\ sun' = TRUE
    /\ UNCHANGED << cvsVars, otherVars, component, added, visible, pickEnabled, tileCache, tiles, modelCache,
                    models, tileReqs, tileEvictions, modelDls, modelEvictions >>

\* ------------------------------------- TileFetcher (fetch, run, completion)
\* Mutant of AtCapacity: the comparison is off by one.
AtCapacityOffByOne(n, max) == n > max

\* run(): start the oldest queued job unless MAX jobs are already active.
AtCapacity(n, max) == n >= max

Run(s) ==
    IF AtCapacity(s.active, s.max) \/ s.queue = << >> THEN s
    ELSE [s EXCEPT !.active = @ + 1,
                   !.queue = Tail(@),
                   !.ts[Head(s.queue)].job = "fetching"]

\* fetch(): queue the job, then run().
Fetch(s, e) == Run([s EXCEPT !.queue = Append(@, e)])

\* Mutant of Settled: the completion does not call run().
SettledWithoutRun(s) == [s EXCEPT !.active = @ - 1]

\* The finally handler of a started job: one job fewer is active, then run().
Settled(s) == Run([s EXCEPT !.active = @ - 1])

\* ------------------------------------------------------ CustomVectorSource
\* tileCache dispose hook (unloadTile calls onUnloadTile, by default a no-op).
CvsDispose(t) == [t EXCEPT !.state = IF @ = "preparing" THEN "disposed" ELSE @]

RECURSIVE CvsDisposeAll(_, _)
CvsDisposeAll(heap, gone) ==
    IF gone = << >> THEN heap
    ELSE CvsDisposeAll([heap EXCEPT ![Head(gone).id] = CvsDispose(@)], Tail(gone))

NewCvsEntry(k) == [key |-> k, state |-> "preparing", data |-> 0, job |-> "queued"]

\* getTile: a hit returns the cached entry; a miss queues a fetch and caches a
\* new entry in state preparing.
GetTileState(s, k) ==
    IF Has(s.cache, k) THEN [s EXCEPT !.cache = Get(s.cache, k)]
    ELSE
      LET id == Len(s.ts) + 1
          s1 == Fetch([s EXCEPT !.ts = Append(@, NewCvsEntry(k))], id)
          gone == SetEvicts(s1.cache, s.maxTileCache, k)
      IN  [s1 EXCEPT !.ts = CvsDisposeAll(@, gone),
                     !.cache = Set(s1.cache, s.maxTileCache, k, id)]

\* worker.onmessage on the main thread: the result goes to whatever entry the
\* cache holds for the message's tile key.
ApplyResult(s, msg) ==
    IF ~Has(s.cache, msg.key) THEN s
    ELSE [s EXCEPT !.cache = Get(s.cache, msg.key),
                   !.ts[IdOf(s.cache, msg.key)].data = msg.ent,
                   !.ts[IdOf(s.cache, msg.key)].state = "loaded"]

CvsState ==
    [max |-> MAX, maxTileCache |-> maxTileCache, active |-> active, queue |-> queue,
     cache |-> cvsCache, ts |-> cvsTiles]

\* InstanceLayer.tileCache.get(tile_key) of a key without an entry.
NoTileData == [scenes |-> 0, groups |-> << >>]

\* The keys the source's dispose hook is called with when its cache goes from
\* `before` to `after`.
Unloaded(before, after) ==
    {before[i].key : i \in 1..Len(before)} \ {after[i].key : i \in 1..Len(after)}

\* Mutant of OnUnloadTile: the hook leaves the layer's tile cache alone.
OnUnloadTileIgnored(tc, gone) == tc

\* vectorSource.onUnloadTile as setVectorSource installs it, called for `gone`.
OnUnloadTile(tc, gone) == [k \in TileKeys |-> IF k \in gone THEN NoTileData ELSE tc[k]]

\* The layer's tile cache after the source's cache went from `before` to `after`.
AfterUnload(tc, hooked, before, after) ==
    IF hooked THEN OnUnloadTile(tc, Unloaded(before, after)) ELSE tc

\* Number of jobs handed to fetch() and number of them started so far.
Submitted == Len(cvsTiles)
Started == Cardinality({e \in 1..Len(cvsTiles) : cvsTiles[e].job # "queued"})
Fetching == {e \in 1..Len(cvsTiles) : cvsTiles[e].job = "fetching"}

GetTile(k) ==
    /\ component = "CustomVectorSource"
    /\ LET s == GetTileState(CvsState, k) IN
       /\ Len(s.ts) <= MaxCvsEntries
       /\ active' = s.active
       /\ queue' = s.queue
       /\ cvsCache' = s.cache
       /\ cvsTiles' = s.ts
       /\ ilTileCache' = AfterUnload(ilTileCache, ilSource, cvsCache, s.cache)
    /\ UNCHANGED << component, mvVars, shVars, mlVars, elVars, wlVars, MAX, maxTileCache, workerInbox,
                    workerOutbox, ilAssets, ilFeatures, ilScene, igms, ilAdded, ilLoading,
                    ilSource >>

\* The network fetch of a started job resolved: cb posts the buffer to the
\* worker, then the finally handler runs.
FetchResolve(e) ==
    /\ component = "CustomVectorSource"
    /\ e \in Fetching
    /\ LET s == Settled([CvsState EXCEPT !.ts[e].job = "posted"]) IN
       /\ active' = s.active
       /\ queue' = s.queue
       /\ cvsTiles' = s.ts
    /\ workerInbox' = Append(workerInbox, [key |-> cvsTiles[e].key, ent |-> e])
    /\ UNCHANGED << component, mvVars, shVars, mlVars, otherVars, MAX, maxTileCache, cvsCache, workerOutbox >>

\* The network fetch (or reading its body) rejected: only the finally handler runs.
FetchReject(e) ==
    /\ component = "CustomVectorSource"
    /\ e \in Fetching
    /\ LET s == Settled([CvsState EXCEPT !.ts[e].job = "fetch_failed"]) IN
       /\ active' = s.active
       /\ queue' = s.queue
       /\ cvsTiles' = s.ts
    /\ UNCHANGED << component, mvVars, shVars, mlVars, otherVars, MAX, maxTileCache, cvsCache, workerInbox, workerOutbox >>

\* Worker self.onmessage: the buffer decodes and the result is posted back.
WorkerDecode ==
    /\ component = "CustomVectorSource"
    /\ workerInbox # << >>
    /\ workerInbox' = Tail(workerInbox)
    /\ workerOutbox' = Append(workerOutbox, Head(workerInbox))
    /\ cvsTiles' = [cvsTiles EXCEPT ![Head(workerInbox).ent].job = "decoded"]
    /\ UNCHANGED << component, mvVars, shVars, mlVars, otherVars, MAX, maxTileCache, active, queue, cvsCache >>

\* Worker self.onmessage throws while decoding: nothing is posted back.
WorkerDecodeFail ==
    /\ component = "CustomVectorSource"
    /\ workerInbox # << >>
    /\ workerInbox' = Tail(workerInbox)
    /\ cvsTiles' = [cvsTiles EXCEPT ![Head(workerInbox).ent].job = "decode_failed"]
    /\ UNCHANGED << component, mvVars, shVars, mlVars, otherVars, MAX, maxTileCache, active, queue, cvsCache, workerOutbox >>

\* worker.onmessage on the main thread.
WorkerMessage ==
    /\ component = "CustomVectorSource"
    /\ workerOutbox # << >>
    /\ LET msg == Head(workerOutbox)
           s == ApplyResult([CvsState EXCEPT !.ts[msg.ent].job = "delivered"], msg)
       IN  /\ cvsCache' = s.cache
           /\ cvsTiles' = s.ts
    /\ workerOutbox' = Tail(workerOutbox)
    /\ UNCHANGED << component, mvVars, shVars, mlVars, otherVars, MAX, maxTileCache, active, queue, workerInbox >>

\* ------------------------------------------------------ InstancedGroupMesh
\* A transform is the affine map x |-> a * x + b. Compose(P, Q) is the matrix
\* product P * Q: Q is applied first.
Identity == [a |-> 1, b |-> 0]

Compose(P, Q) == [a |-> P.a * Q.a, b |-> P.a * Q.b + P.b]

\* The content of a freshly allocated instanceMatrix array.
ZeroMatrix == [a |-> 0, b |-> 0]

\* The matrices a caller passes to setMatrixAt.
Matrices == {Identity, [a |-> 2, b |-> 0], [a |-> 1, b |-> 1]}

\* A mesh of an asset, as group.traverse visits it: the geometry/material key,
\* the product of the matrices of its ancestors below the asset's root, and
\* its own matrix (relative to its parent).
Mesh(u, parent, local) == [uuid |-> u, parent |-> parent, local |-> local]

\* The assets under test: one mesh; two meshes of one geometry and material
\* side by side under the root; a mesh inside a scaled node next to a mesh of
\* another geometry.
Assets ==
    { << Mesh("g1", Identity, Identity) >>,
      << Mesh("g1", Identity, Identity), Mesh("g1", Identity, [a |-> 1, b |-> 1]) >>,
      << Mesh("g1", [a |-> 2, b |-> 0], [a |-> 1, b |-> 1]), Mesh("g2", Identity, Identity) >> }

\* bakeWorldAndConvertYupToZup moves every node's transform into the geometry
\* and resets position, rotation and scale of every node.
Bake(asset) ==
    [i \in 1..Len(asset) |-> [asset[i] EXCEPT !.parent = Identity, !.local = Identity]]

\* The transform from a mesh's own space to the space of the asset's root.
LocalToRoot(m) == Compose(m.parent, m.local)

\* constructor: the meshes grouped by geometry/material key, keys in the
\* order of their first mesh.
RECURSIVE MeshCollect(_, _)
MeshCollect(collect, meshes) ==
    IF meshes = << >> THEN collect
    ELSE
      LET m == Head(meshes) IN
      IF \E c \in 1..Len(collect) : collect[c].uuid = m.uuid
      THEN MeshCollect([c \in 1..Len(collect) |->
                          IF collect[c].uuid = m.uuid
                          THEN [collect[c] EXCEPT !.meshes = Append(@, m)]
                          ELSE collect[c]], Tail(meshes))
      ELSE MeshCollect(Append(collect, [uuid |-> m.uuid, meshes |-> << m >>]), Tail(meshes))

\* new InstancedGroupMesh(group, count): one InstancedMesh of
\* meshes.length * count slots per key, one metadata object per instance.
NewInstancedGroupMesh(asset, count) ==
    LET collect == MeshCollect(<< >>, asset) IN
    [count |-> count,
     collect |-> collect,
     userData |-> [i \in 1..count |-> "empty"],
     buffers |-> [c \in 1..Len(collect) |->
                    [s \in 1..(Len(collect[c].meshes) * count) |-> ZeroMatrix]]]

\* The slot setMatrixAt writes for instance `index` and the i-th mesh of a key
\* that has len meshes (i counts from 0).
SlotOf(len, index, i) == len * index + i

\* setMatrixAt(index, matrix). InstancedMesh.setMatrixAt stores into a typed
\* array, which drops a store outside its length.
SetMatrixAt(g, index, matrix) ==
    [g EXCEPT !.buffers =
        [c \in 1..Len(g.buffers) |->
           [s \in 1..Len(g.buffers[c]) |->
              LET len == Len(g.collect[c].meshes)
                  hit == {i \in 0..(len - 1) : SlotOf(len, index, i) = s - 1}
              IN  IF hit = {} THEN g.buffers[c][s]
                  ELSE LET i == CHOOSE i \in hit : \A j \in hit : j <= i
                       IN  Compose(matrix, g.collect[c].meshes[i + 1].local)]]]

\* Mutant of UserDataInRange: the upper bound is tested with > instead of >=.
UserDataInRangeInclusive(index, count) == ~(index < 0 \/ index > count)

\* The bounds check of setUserDataAt and getUserDataAt.
UserDataInRange(index, count) == ~(index < 0 \/ index >= count)

\* userDataArray[index] = userData on a JavaScript array: an index equal to
\* the length appends.
WriteAt(arr, index, d) ==
    IF index < Len(arr) THEN [arr EXCEPT ![index + 1] = d] ELSE Append(arr, d)

SetUserDataAt(g, index, d) ==
    IF ~UserDataInRange(index, g.count) THEN g
    ELSE [g EXCEPT !.userData = WriteAt(@, index, d)]

\* Reading a JavaScript array at or past its length gives undefined.
GetUserDataAt(g, index) ==
    IF ~UserDataInRange(index, g.count) THEN "null"
    ELSE IF index < Len(g.userData) THEN g.userData[index + 1]
    ELSE "undefined"

\* ----------------------------------------------------------- InstanceLayer
\* distribute(mapNumber, object_size, feature_size), the counts in key order.
\* feature_size % feature_size is NaN for feature_size = 0, and count >= NaN
\* is false.
DistributeBreaks(count, feature_size) ==
    feature_size # 0 /\ count >= feature_size % feature_size

Distribute(object_size, feature_size) ==
    [k \in 1..object_size |->
        (feature_size \div object_size)
          + (IF DistributeBreaks(k - 1, feature_size) THEN 0 ELSE 1)]

\* matrix.compose(position, rotation, scale) of the feature at `index`.
FeatureMatrix(index) == [a |-> 2, b |-> index]

\* prerender's loop over layer.features.
RECURSIVE PlaceFeatures(_, _, _)
PlaceFeatures(s, index, count) ==
    IF index >= count THEN s
    ELSE
      LET groupIndex == index % Len(s.groups)
          instanceIndex == index \div Len(s.groups)
          g1 == SetUserDataAt(s.groups[groupIndex + 1], instanceIndex, "scale_unit")
          g2 == SetMatrixAt(g1, instanceIndex, FeatureMatrix(index))
      IN  PlaceFeatures([groups |-> [s.groups EXCEPT ![groupIndex + 1] = g2],
                         calls |-> s.calls \cup {[group |-> groupIndex + 1,
                                                  index |-> instanceIndex]}],
                        index + 1, count)

\* prerender for a loaded tile that has no scene yet: the instanced groups it
\* adds to the scene and the (group, instance index) pairs it passes to
\* setUserDataAt and setMatrixAt.
Prerendered(assets, count) ==
    IF count = 0 THEN [groups |-> << >>, calls |-> {}]
    ELSE PlaceFeatures(
           [groups |-> [k \in 1..Len(assets) |->
                          NewInstancedGroupMesh(assets[k], Distribute(Len(assets), count)[k])],
            calls |-> {}],
           0, count)

\* The calls prerender makes for the tile's features.
PrerenderCalls == Prerendered(ilAssets, ilFeatures).calls

\* prerender(): a loaded covering tile without a cache entry gets a scene.
ILPrerender ==
    /\ component = "InstanceLayer"
    /\ Len(ilAssets) > 0
    /\ ~ilScene.cached
    /\ ilScene' = [cached |-> TRUE, groups |-> Prerendered(ilAssets, ilFeatures).groups]
    /\ UNCHANGED << component, mvVars, shVars, mlVars, cvsVars, elVars, wlVars, ilAttached, ilAssets, ilFeatures, igms >>

\* vectorSource.onUnloadTile: the tile's entry is deleted from the tile cache.
ILUnloadTile ==
    /\ component = "InstanceLayer"
    /\ ilScene.cached
    /\ ilScene' = [cached |-> FALSE, groups |-> << >>]
    /\ UNCHANGED << component, mvVars, shVars, mlVars, cvsVars, elVars, wlVars, ilAttached, ilAssets, ilFeatures, igms >>

\* ------------------------------------- InstancedGroupMesh used on its own
UserDataValues == {"d1", "d2"}

IgmConstruct(asset, count) ==
    /\ component = "InstancedGroupMesh"
    /\ igms' = << NewInstancedGroupMesh(asset, count) >>
    /\ UNCHANGED << component, mvVars, shVars, mlVars, cvsVars, elVars, wlVars, ilAttached, ilAssets, ilFeatures, ilScene >>

IgmSetMatrixAt(index, matrix) ==
    /\ component = "InstancedGroupMesh"
    /\ igms # << >>
    /\ igms' = << SetMatrixAt(igms[1], index, matrix) >>
    /\ UNCHANGED << component, mvVars, shVars, mlVars, cvsVars, elVars, wlVars, ilAttached, ilAssets, ilFeatures, ilScene >>

IgmSetUserDataAt(index, d) ==
    /\ component = "InstancedGroupMesh"
    /\ igms # << >>
    /\ igms' = << SetUserDataAt(igms[1], index, d) >>
    /\ UNCHANGED << component, mvVars, shVars, mlVars, cvsVars, elVars, wlVars, ilAttached, ilAssets, ilFeatures, ilScene >>

\* ---------------------------- InstanceLayer on its CustomVectorSource
\* The asset of the layer's one object URL, and layer.features.length of the
\* layer's source layer in each tile.
ObjectAsset == << Mesh("g1", Identity, Identity) >>

InstanceFeatures(k) == IF k = "t1" THEN 3 ELSE 0

\* Mutant of TileDataMissing: the tile cache is not consulted.
TileDataMissingAlways(tc, k) == TRUE

\* prerender builds a scene for a loaded tile only if tileCache.get(tile_key)
\* returns nothing.
TileDataMissing(tc, k) == tc[k] = NoTileData

\* prerender's loop over the covering tiles.
RECURSIVE PrerenderTiles(_, _, _)
PrerenderTiles(s, tc, keys) ==
    IF keys = << >> THEN [cvs |-> s, tc |-> tc]
    ELSE
      LET k == Head(keys)
          s1 == GetTileState(s, k)
          tc1 == OnUnloadTile(tc, Unloaded(s.cache, s1.cache))
          tc2 == IF s1.ts[IdOf(s1.cache, k)].state = "loaded" /\ TileDataMissing(tc1, k)
                 THEN [tc1 EXCEPT ![k] =
                         [scenes |-> @.scenes + 1,
                          groups |-> Prerendered(ilAssets, InstanceFeatures(k)).groups]]
                 ELSE tc1
      IN  PrerenderTiles(s1, tc2, Tail(keys))

\* onAdd: the map is set and the download of the object URL starts.
IlOnAdd ==
    /\ component = "CustomVectorSource"
    /\ ~ilAdded
    /\ ilAdded' = TRUE
    /\ ilLoading' = TRUE
    /\ UNCHANGED << component, mvVars, shVars, mlVars, cvsVars, elVars, wlVars, ilAssets, ilFeatures, ilScene,
                    igms, ilSource, ilTileCache >>

IlOnRemove ==
    /\ component = "CustomVectorSource"
    /\ ilAdded
    /\ ilAdded' = FALSE
    /\ UNCHANGED << component, mvVars, shVars, mlVars, cvsVars, elVars, wlVars, ilAssets, ilFeatures, ilScene,
                    igms, ilLoading, ilSource, ilTileCache >>

\* The then-handler of loadModelFromGlb: the baked asset is stored under its
\* URL unless the URL is stored already.
IlModelLoaded ==
    /\ component = "CustomVectorSource"
    /\ ilLoading
    /\ ilLoading' = FALSE
    /\ ilAssets' = IF ilAssets = << >> THEN << Bake(ObjectAsset) >> ELSE ilAssets
    /\ UNCHANGED << component, mvVars, shVars, mlVars, cvsVars, elVars, wlVars, ilFeatures, ilScene, igms,
                    ilAdded, ilSource, ilTileCache >>

\* setVectorSource, called once after construction.
IlSetVectorSource ==
    /\ component = "CustomVectorSource"
    /\ ~ilSource
    /\ ilSource' = TRUE
    /\ UNCHANGED << component, mvVars, shVars, mlVars, cvsVars, elVars, wlVars, ilAssets, ilFeatures, ilScene,
                    igms, ilAdded, ilLoading, ilTileCache >>

\* prerender() past its guard, the covering tiles being `keys`.
IlPrerender(keys) ==
    /\ component = "CustomVectorSource"
    /\ ilAdded /\ ilSource /\ Len(ilAssets) = 1
    /\ LET p == PrerenderTiles(CvsState, ilTileCache, keys) IN
       /\ Len(p.cvs.ts) <= MaxCvsEntries
       /\ active' = p.cvs.active
       /\ queue' = p.cvs.queue
       /\ cvsCache' = p.cvs.cache
       /\ cvsTiles' = p.cvs.ts
       /\ ilTileCache' = p.tc
    /\ UNCHANGED << component, mvVars, shVars, mlVars, elVars, wlVars, MAX, maxTileCache, workerInbox,
                    workerOutbox, ilAssets, ilFeatures, ilScene, igms, ilAdded, ilLoading,
                    ilSource >>

\* --------------------------------------------------------------- EditLayer
\* The children an object adds to its tile's scene: one shadow mesh per mesh
\* of the clone, then the clone, named by the object id.
ObjectChildren(id) == Repeat("shadow", MeshCount(id)) \o << id >>

\* Clones placed so far in the scenes of the edit layer.
EditObjects ==
    LET Clones(children) == Cardinality({i \in 1..Len(children) : children[i] \in ModelNames})
        RECURSIVE Sum(_)
        Sum(ks) == IF ks = {} THEN 0
                   ELSE LET k == CHOOSE k \in ks : TRUE
                        IN  Clones(elTiles[k]) + Sum(ks \ {k})
    IN  Sum(TileKeys)

ElOnAdd ==
    /\ component = "EditLayer"
    /\ ~elAdded
    /\ elAdded' = TRUE
    /\ UNCHANGED << component, mvVars, shVars, mlVars, cvsVars, ilVars, wlVars, elPickEnabled, elModelCache, elTiles,
                    elScenes >>

ElOnRemove ==
    /\ component = "EditLayer"
    /\ elAdded
    /\ elAdded' = FALSE
    /\ UNCHANGED << component, mvVars, shVars, mlVars, cvsVars, ilVars, wlVars, elPickEnabled, elModelCache, elTiles,
                    elScenes >>

ElSetPickEnabled(enabled) ==
    /\ component = "EditLayer"
    /\ elPickEnabled' = enabled
    /\ UNCHANGED << component, mvVars, shVars, mlVars, cvsVars, ilVars, wlVars, elAdded, elModelCache, elTiles,
                    elScenes >>

\* addObjectsToCache: ids already cached are kept.
AddObjectsToCache(ids) ==
    /\ component = "EditLayer"
    /\ elModelCache' = elModelCache \cup ids
    /\ UNCHANGED << component, mvVars, shVars, mlVars, cvsVars, ilVars, wlVars, elAdded, elPickEnabled, elTiles,
                    elScenes >>

\* getTileData: tileCache.get(key) returns nothing.
SceneMissing(ts, key) == ts[key] = << >>

\* getTileData: the tile's scene, created with its light group when missing.
GetTileData(ts, key) == IF SceneMissing(ts, key) THEN << "light_group" >> ELSE ts[key]

\* addObjectToScene(id) with the map centred in tile `key`.
AddObjectToScene(id, key) ==
    /\ component = "EditLayer"
    /\ elAdded
    /\ id \in elModelCache
    /\ EditObjects < MaxEditObjects
    /\ elTiles' = [elTiles EXCEPT ![key] = GetTileData(elTiles, key) \o ObjectChildren(id)]
    /\ elScenes' = [elScenes EXCEPT ![key] = IF SceneMissing(elTiles, key) THEN @ + 1 ELSE @]
    /\ UNCHANGED << component, mvVars, shVars, mlVars, cvsVars, ilVars, wlVars, elAdded, elPickEnabled, elModelCache >>

\* ------------------------------------------- handleClick: picking a hit
\* hits[0] of one tile's ray test: the scene child that holds the intersected
\* primitive and the distance; child 0 when the ray meets nothing.
NoHit == [child |-> 0, dist |-> 0]

Distances == 1..MaxDist

\* A clone is flagged userData.isModelRoot; lights and shadow meshes are not.
IsModelRoot(children, i) == children[i] \notin {"light_group", "shadow_group", "shadow"}

\* The scene children a ray can meet: a shadow mesh, or a clone that has a
\* mesh (its shadow meshes were added just before it).
Hittable(children) ==
    {i \in 1..Len(children) :
        \/ children[i] = "shadow"
        \/ IsModelRoot(children, i) /\ i > 1 /\ children[i - 1] = "shadow"}

HitChoices(children) ==
    {NoHit} \cup {[child |-> i, dist |-> d] : i \in Hittable(children), d \in Distances}

\* hits[1..] of a ray test whose nearest hit is h0: intersectObjects returns
\* every intersection, nearest first, so the others lie no nearer than h0.
FartherHits(children, h0) ==
    IF h0 = NoHit THEN {}
    ELSE {[child |-> j, dist |-> d] : j \in Hittable(children) \ {h0.child},
                                      d \in {x \in Distances : x >= h0.dist}}

\* h0.object and its ancestors, up to the scene: a shadow mesh sits directly
\* in the scene, a clone's mesh sits below the clone.
Ancestry(children, hit) ==
    IF children[hit.child] = "shadow"
    THEN << [kind |-> "shadow", child |-> hit.child], [kind |-> "scene", child |-> 0] >>
    ELSE << [kind |-> "mesh", child |-> hit.child], [kind |-> "root", child |-> hit.child],
            [kind |-> "scene", child |-> 0] >>

\* obj of the loop `while (obj && !obj.userData?.isModelRoot) obj = obj.parent`
\* when it ends with no object.
NoNode == [kind |-> "null", child |-> 0]

\* Mutant of ResolveRoot: the intersected primitive itself is taken.
ResolveToPrimitive(chain) == Head(chain)

\* The first object of the chain that is flagged as a placement root.
ResolveRoot(chain) ==
    IF \E n \in 1..Len(chain) : chain[n].kind = "root"
    THEN chain[CHOOSE n \in 1..Len(chain) :
                  chain[n].kind = "root" /\ \A x \in 1..(n - 1) : chain[x].kind # "root"]
    ELSE NoNode

NoBest == [found |-> FALSE, dist |-> 0, tile |-> 0, node |-> NoNode]

\* Mutant of Replaces: a hit at the same distance replaces the best one.
ReplacesOnTie(best, dist) == ~best.found \/ dist <= best.dist

\* !bestHit || h0.distance < bestHit.dist
Replaces(best, dist) == ~best.found \/ dist < best.dist

\* The loop over the scanned tiles: scan[i] is the scene of the i-th tile that
\* has one, rays[i] what its ray test returns.
RECURSIVE BestHit(_, _, _, _)
BestHit(best, scan, rays, i) ==
    IF i > Len(scan) THEN best
    ELSE IF rays[i] = NoHit THEN BestHit(best, scan, rays, i + 1)
    ELSE
      LET obj == ResolveRoot(Ancestry(scan[i].children, rays[i])) IN
      IF obj # NoNode /\ Replaces(best, rays[i].dist)
      THEN BestHit([found |-> TRUE, dist |-> rays[i].dist, tile |-> i, node |-> obj],
                   scan, rays, i + 1)
      ELSE BestHit(best, scan, rays, i + 1)

\* Mutant of Callbacks: onPick is called whether or not there is a best hit.
CallbacksAlwaysPick(best) == << "onPick" >>

\* The callbacks the end of handleClick calls, in order.
Callbacks(best) == IF ~best.found THEN << "onPickFail" >> ELSE << "onPick" >>

\* One click: the callbacks called and the hit handed to onPick. `enabled` is
\* the guard at the top of handleClick.
Click(enabled, scan, rays) ==
    IF ~enabled THEN [calls |-> << >>, best |-> NoBest]
    ELSE LET best == BestHit(NoBest, scan, rays, 1)
         IN  [calls |-> Callbacks(best), best |-> best]

\* What the ray tests of the scanned tiles can return.
RayChoices(scan) ==
    LET longest == IF scan = << >> THEN 0
                   ELSE CHOOSE n \in {Len(scan[i].children) : i \in 1..Len(scan)} :
                          \A i \in 1..Len(scan) : Len(scan[i].children) <= n
        hits == {NoHit} \cup [child : 1..longest, dist : Distances]
    IN  {q \in [1..Len(scan) -> hits] :
            \A i \in 1..Len(scan) : q[i] \in HitChoices(scan[i].children)}

\* ModelLayer.handleClick: the tiles it ray-tests, in covering order.
MlScan(keys) ==
    LET kept == SelectSeq(keys, LAMBDA k :
                    Has(tileCache, k) /\ RayTestable(tiles[IdOf(tileCache, k)]))
    IN  [i \in 1..Len(kept) |->
            [key |-> kept[i], children |-> tiles[IdOf(tileCache, kept[i])].children]]

MlClickEnabled == added /\ visible /\ pickEnabled

\* EditLayer.handleClick: the tiles it ray-tests, in covering order.
ElScan(keys) ==
    LET kept == SelectSeq(keys, LAMBDA k : elTiles[k] # << >>)
    IN  [i \in 1..Len(kept) |-> [key |-> kept[i], children |-> elTiles[kept[i]]]]

\* EditLayer.visible is never assigned after construction.
ElClickEnabled == elAdded /\ elPickEnabled

\* handleClick changes no field of the edit layer.
ElHandleClick(keys) ==
    /\ component = "EditLayer"
    /\ ElClickEnabled
    /\ \E rays \in RayChoices(ElScan(keys)) : Len(Click(TRUE, ElScan(keys), rays).calls) > 0
    /\ UNCHANGED vars

\* The clicks a layer can receive in the current state (the click listener is
\* registered from onAdd to onRemove): the guard at the top of handleClick,
\* the tiles scanned and one outcome of their ray tests.
Clicks ==
    LET isAdded == IF component = "ModelLayer" THEN added
                   ELSE IF component = "EditLayer" THEN elAdded ELSE FALSE
        enabled == IF component = "ModelLayer" THEN MlClickEnabled ELSE ElClickEnabled
        scans == IF component = "ModelLayer" THEN {MlScan(keys) : keys \in VisibleTileLists}
                 ELSE {ElScan(keys) : keys \in VisibleTileLists}
    IN  IF ~isAdded THEN {}
        ELSE UNION { {[enabled |-> enabled, scan |-> s, rays |-> r] : r \in RayChoices(s)} :
                     s \in scans }

\* The scanned tiles of a click whose ray test resolves to a placement root.
Resolved(c) ==
    {i \in 1..Len(c.scan) :
        c.rays[i] # NoHit /\ IsModelRoot(c.scan[i].children, c.rays[i].child)}

\* -------------------------------------------------------------- WaterLayer
TILE_EXTENT == 8192

\* The source layers a WaterLayer can be constructed for.
SourceLayers == {"water", "lake"}

\* The polygons of the tiles, as classifyRings returns them: a polygon is a
\* sequence of rings and a ring a sequence of points << x, y >> in tile units.
\* p1 has one open ring, p2 a closed one, and p3 a closed outer ring with an
\* open hole.
Polygons ==
    [p1 |-> << << <<0, 0>>, <<4, 0>>, <<4, 4>> >> >>,
     p2 |-> << << <<4, 4>>, <<8, 4>>, <<4, 8>>, <<4, 4>> >> >>,
     p3 |-> << << <<0, 0>>, <<8, 0>>, <<0, 8>>, <<0, 0>> >>,
               << <<1, 1>>, <<1, 2>>, <<2, 1>> >> >>]

\* The Polygon features that layer `layer` of tile k decodes to; tile t2 has
\* no layer "water" and tile t1 no polygon in its layer "lake".
LayerFeatures(k, layer) ==
    IF layer = "water" THEN (IF k = "t1" THEN {"p1", "p2"} ELSE {})
    ELSE (IF k = "t1" THEN {} ELSE {"p3"})

\* vectorTileData.data.layers[this.sourceLayer] of tile k.
TileWater(k) == LayerFeatures(k, wlSourceLayer)

\* tile.canonical.x of the tile (all tiles here lie in one row).
TileX(k) == IF k = "t1" THEN 0 ELSE 1

\* waterGeometry = null and an empty scene.
NoWater == {}

\* prerender's first loop: getTile for every covering tile, in order; the
\* state each returned entry has when it is returned.
RECURSIVE WaterTiles(_, _)
WaterTiles(s, keys) ==
    IF keys = << >> THEN [cvs |-> s, states |-> << >>]
    ELSE
      LET s1 == GetTileState(s, Head(keys))
          rest == WaterTiles(s1, Tail(keys))
      IN  [cvs |-> rest.cvs,
           states |-> << s1.ts[IdOf(s1.cache, Head(keys))].state >> \o rest.states]

\* Mutant of DataNotReady: only the first covering tile is looked at.
DataNotReadyFirstOnly(states) == states # << >> /\ states[1] # "loaded"

\* dataNotReady after the loop: some covering tile is not loaded.
DataNotReady(states) == \E i \in 1..Len(states) : states[i] # "loaded"

\* ring.map((p) => [p.x + offsetX, p.y + offsetY]) for every ring; offsetY is
\* 0 for tiles of one row.
TransformedRings(polygon, offsetX) ==
    [r \in 1..Len(polygon) |->
        [n \in 1..Len(polygon[r]) |-> << polygon[r][n][1] + offsetX, polygon[r][n][2] >>]]

\* Mutant of CloseRing: the first point is appended to every ring.
CloseRingAlways(ring) == Append(ring, << ring[1][1], ring[1][2] >>)

\* The ring closure of prerender: a copy of the first point is appended when
\* the first and the last point differ in x or in y.
CloseRing(ring) ==
    LET first == ring[1]
        last == ring[Len(ring)]
    IN  IF first[1] # last[1] \/ first[2] # last[2]
        THEN Append(ring, << first[1], first[2] >>)
        ELSE ring

ClosedRings(rings) == [r \in 1..Len(rings) |-> CloseRing(rings[r])]

\* polygonToMerge: every polygon of the covering tiles, shifted by the tile's
\* offset from the root tile, its rings closed.
PolygonsToMerge(keys, root) ==
    UNION { {ClosedRings(TransformedRings(Polygons[p],
                                          (TileX(keys[i]) - TileX(root)) * TILE_EXTENT))
               : p \in TileWater(keys[i])} :
            i \in 1..Len(keys) }

\* polygonToMerge.length
RECURSIVE PolygonCount(_)
PolygonCount(keys) ==
    IF keys = << >> THEN 0
    ELSE Cardinality(TileWater(Head(keys))) + PolygonCount(Tail(keys))

\* How the rebuild ends: it completes, turf.union throws, or building a mesh
\* throws after the scene was cleared.
RebuildOutcomes == {"ok", "union_throws", "build_throws"}

WlOnAdd ==
    /\ component = "CustomVectorSource"
    /\ ~wlAdded
    /\ wlAdded' = TRUE
    /\ wlListening' = TRUE
    /\ wlScene' = NoWater
    /\ wlDirty' = TRUE
    /\ UNCHANGED << component, mvVars, shVars, mlVars, cvsVars, ilVars, elVars, wlSource, wlSourceLayer,
                    wlRootKey, wlGeometry >>

WlOnRemove ==
    /\ component = "CustomVectorSource"
    /\ wlAdded
    /\ wlAdded' = FALSE
    /\ UNCHANGED << component, mvVars, shVars, mlVars, cvsVars, ilVars, elVars, wlListening, wlSource, wlSourceLayer, wlDirty,
                    wlRootKey, wlGeometry, wlScene >>

WlSetVectorSource ==
    /\ component = "CustomVectorSource"
    /\ ~wlSource
    /\ wlSource' = TRUE
    /\ UNCHANGED << component, mvVars, shVars, mlVars, cvsVars, ilVars, elVars, wlAdded, wlListening, wlSourceLayer, wlDirty,
                    wlRootKey, wlGeometry, wlScene >>

\* The moveend listener registered by onAdd (it is never removed).
WlMoveEnd ==
    /\ component = "CustomVectorSource"
    /\ wlListening
    /\ wlDirty' = TRUE
    /\ UNCHANGED << component, mvVars, shVars, mlVars, cvsVars, ilVars, elVars, wlAdded, wlListening, wlSource,
                    wlSourceLayer, wlRootKey, wlGeometry, wlScene >>

\* prerender() past its guard, the covering tiles being `keys` and the map
\* centre lying in tile `root`.
WlPrerender(keys, root, outcome) ==
    /\ component = "CustomVectorSource"
    /\ wlAdded /\ wlSource /\ wlDirty
    /\ LET w == WaterTiles(CvsState, keys)
           polys == PolygonsToMerge(keys, root)
       IN
       /\ Len(w.cvs.ts) <= MaxCvsEntries
       /\ active' = w.cvs.active
       /\ queue' = w.cvs.queue
       /\ cvsCache' = w.cvs.cache
       /\ cvsTiles' = w.cvs.ts
       /\ IF DataNotReady(w.states)
          THEN /\ outcome = "ok"
               /\ UNCHANGED << wlDirty, wlRootKey, wlGeometry, wlScene >>
          ELSE /\ wlRootKey' = root
               /\ wlDirty' = FALSE
               /\ IF PolygonCount(keys) = 0
                  THEN outcome = "ok" /\ UNCHANGED << wlGeometry, wlScene >>
                  ELSE \/ /\ outcome = "ok"
                          /\ wlGeometry' = polys
                          /\ wlScene' = polys
                       \/ /\ outcome = "union_throws"
                          /\ PolygonCount(keys) > 1
                          /\ UNCHANGED << wlGeometry, wlScene >>
                       \/ /\ outcome = "build_throws"
                          /\ wlGeometry' = polys
                          /\ wlScene' = NoWater
    /\ UNCHANGED << component, mvVars, shVars, mlVars, ilVars, elVars, MAX, maxTileCache, workerInbox, workerOutbox,
                    wlAdded, wlListening, wlSource, wlSourceLayer >>

\* ------------------------------------------------------ shadow projection
\* Numbers are rationals: a vector or a matrix holds integer numerators over
\* one common denominator `den`.
Abs(n) == IF n < 0 THEN -n ELSE n

\* Vector3.length() for the directions below, whose lengths are integers.
Length(v) ==
    CHOOSE n \in 0..(Abs(v[1]) + Abs(v[2]) + Abs(v[3])) :
        n * n = v[1] * v[1] + v[2] * v[2] + v[3] * v[3]

\* sunDir.clone().normalize()
Normalize(v) == [x |-> v[1], y |-> v[2], z |-> v[3], den |-> Length(v)]

\* The sun directions under test; the last one has no vertical component.
SunDirs == { <<0, 0, 1>>, <<0, 0, -1>>, <<1, 2, 2>>, <<2, -1, -2>>, <<0, 3, -4>>, <<3, 4, 0>> }

PlaneZs == (0 - MaxPlaneZ)..MaxPlaneZ

\* new THREE.Matrix4()
IdentityMatrix4 ==
    [elements |-> [i \in 0..15 |-> IF i \in {0, 5, 10, 15} THEN 1 ELSE 0], den |-> 1]

\* Matrix4.makeTranslation: the world matrices of the meshes under test.
Translation(x, y, z) ==
    [elements |-> [i \in 0..15 |-> IF i \in {0, 5, 10, 15} THEN 1
                                   ELSE IF i = 12 THEN x
                                   ELSE IF i = 13 THEN y
                                   ELSE IF i = 14 THEN z ELSE 0],
     den |-> 1]

MeshMatrices == {IdentityMatrix4, Translation(1, 0, 2)}

\* The sixteen elements buildShadowMatrix writes, in the order of its
\* assignments: m[0], m[4], m[8], m[12], m[1], ...
ShadowElements(sunDir, planeZ) ==
    LET normal == [x |-> 0, y |-> 0, z |-> 1]
        constant == 0 - planeZ
        lightDir == Normalize(sunDir)
        lightPos4D == [x |-> 0 - lightDir.x, y |-> 0 - lightDir.y, z |-> 0 - lightDir.z,
                       w |-> 0]
        dot == (normal.x * lightPos4D.x + normal.y * lightPos4D.y + normal.z * lightPos4D.z)
                 - constant * lightPos4D.w
        m == [i \in 0..15 |->
                CASE i = 0 -> dot - lightPos4D.x * normal.x
                  [] i = 4 -> (0 - lightPos4D.x) * normal.y
                  [] i = 8 -> (0 - lightPos4D.x) * normal.z
                  [] i = 12 -> (0 - lightPos4D.x) * (0 - constant)
                  [] i = 1 -> (0 - lightPos4D.y) * normal.x
                  [] i = 5 -> dot - lightPos4D.y * normal.y
                  [] i = 9 -> (0 - lightPos4D.y) * normal.z
                  [] i = 13 -> (0 - lightPos4D.y) * (0 - constant)
                  [] i = 2 -> (0 - lightPos4D.z) * normal.x
                  [] i = 6 -> (0 - lightPos4D.z) * normal.y
                  [] i = 10 -> dot - lightPos4D.z * normal.z
                  [] i = 14 -> (0 - lightPos4D.z) * (0 - constant)
                  [] i = 3 -> (0 - lightPos4D.w) * normal.x
                  [] i = 7 -> (0 - lightPos4D.w) * normal.y
                  [] i = 11 -> (0 - lightPos4D.w) * normal.z
                  [] i = 15 -> dot - lightPos4D.w * (0 - constant)]
    IN  [elements |-> m, den |-> lightDir.den]

\* Matrix4.multiplyMatrices(a, b), elements in column-major order.
MultiplyMatrices(a, b) ==
    [elements |->
        [i \in 0..15 |->
            LET r == i % 4
                c == i \div 4
            IN  a.elements[r] * b.elements[4 * c]
                  + a.elements[r + 4] * b.elements[4 * c + 1]
                  + a.elements[r + 8] * b.elements[4 * c + 2]
                  + a.elements[r + 12] * b.elements[4 * c + 3]],
     den |-> a.den * b.den]

\* Vector4.applyMatrix4 of the point (p, 1): the numerators of x, y, z and w.
ApplyMatrix4(m, p) ==
    [r \in 1..4 |->
        m.elements[r - 1] * p[1] + m.elements[r + 3] * p[2] + m.elements[r + 7] * p[3]
          + m.elements[r + 11]]

Points == {<<x, y, z>> : x \in {0, 1}, y \in {0, 3}, z \in {-1, 0, 2}}

\* buildShadowMatrix(sunDir, planeZ, out)
BuildShadowMatrix ==
    /\ component = "ShadowMatrix"
    /\ shMatrix' = ShadowElements(shSunDir, shPlaneZ)
    /\ shBuilt' = TRUE
    /\ UNCHANGED << component, mvVars, mlVars, cvsVars, ilVars, elVars, wlVars, shSunDir, shPlaneZ,
                    shImage >>

\* MaplibreShadowMesh.update(sunDir, planeZ) of a shadow whose mesh has the
\* world matrix `meshMatrix`.
ShadowMeshUpdate(meshMatrix) ==
    /\ component = "ShadowMatrix"
    /\ shMatrix' = MultiplyMatrices(ShadowElements(shSunDir, shPlaneZ), meshMatrix)
    /\ shBuilt' = TRUE
    /\ UNCHANGED << component, mvVars, mlVars, cvsVars, ilVars, elVars, wlVars, shSunDir, shPlaneZ,
                    shImage >>

\* A vertex is transformed by the matrix.
TransformPoint(p) ==
    /\ component = "ShadowMatrix"
    /\ shImage' = ApplyMatrix4(shMatrix, p)
    /\ UNCHANGED << component, mvVars, mlVars, cvsVars, ilVars, elVars, wlVars, shSunDir, shPlaneZ,
                    shBuilt, shMatrix >>

\* -------------------------------------------------------------- MapView
\* MapView creates the overlay, the outline and the base model layer on every
\* style load and keeps the edit layers across style loads. A layer object is
\* a record; `added` says that the map holds it (onAdd ran, onRemove did not).
NoObject == "none"

\* generateId(): a fresh id on every call.
EditIds == [i \in 1..MaxEditLayers |-> IF i = 1 THEN "edit1" ELSE IF i = 2 THEN "edit2" ELSE "edit3"]

\* The values the activeLayerId prop takes: not given, the base layer, an id
\* that no layer has, or the id of an edit layer created so far.
ActiveIds(n) == {"", "models", "other"} \cup {EditIds[i] : i \in 1..n}

\* new OverlayLayer(opts) / new OutlineLayer(opts) followed by map.addLayer.
NewSelectionLayer == [added |-> TRUE, currentObject |-> NoObject]

\* OverlayLayer.unselect(): nothing without a scene.
OverlayUnselect(o) == IF o.added THEN [o EXCEPT !.currentObject = NoObject] ELSE o

\* OutlineLayer.unselect()
OutlineUnselect(o) == [o EXCEPT !.currentObject = NoObject]

\* OverlayLayer.setCurrentTileID followed by attachGizmoToObject: nothing
\* without a renderer, a camera, a scene and a map.
AttachGizmoToObject(o, object) == IF o.added THEN [o EXCEPT !.currentObject = object] ELSE o

\* OutlineLayer.attachObject: nothing without a scene.
AttachObject(o, object) == IF o.added THEN [o EXCEPT !.currentObject = object] ELSE o

\* map.removeLayer of a layer the map holds: its onRemove runs.
RemoveLayerIfExists(l) == [l EXCEPT !.added = FALSE]

\* unselect() of the referenced layer, when the reference is not null.
UnselectOverlay(layers, ref) ==
    IF ref = 0 THEN layers ELSE [layers EXCEPT ![ref] = OverlayUnselect(@)]

UnselectOutline(layers, ref) ==
    IF ref = 0 THEN layers ELSE [layers EXCEPT ![ref] = OutlineUnselect(@)]

\* The flag the base model layer gets for an active id.
ModelPickEnabled(activeId) == activeId = "models" \/ activeId = ""

\* The flag addEditLayer gives the layer it made, whatever the active id is.
AddedPickEnabledDefault(activeId, id) == TRUE

\* The flag an edit layer gets for an active id.
EditPickEnabled(activeId, id) == activeId = id

\* The flag addEditLayer gives the layer it made.
AddedPickEnabled(activeId, id) == activeId = id

\* updatePickEnabled() and the body of the activeLayerId effect: every edit
\* layer of editLayersRef gets its flag for the active id.
UpdateEditLayers(layers, activeId) ==
    [i \in 1..Len(layers) |->
        [layers[i] EXCEPT !.pickEnabled = EditPickEnabled(activeId, layers[i].id)]]

UpdateModelLayers(layers, ref, activeId) ==
    IF ref = 0 THEN layers
    ELSE [layers EXCEPT ![ref].pickEnabled = ModelPickEnabled(activeId)]

\* handleStyleLoad -> addEditorLayers: cleanupEditorLayers unselects and
\* removes the layers of the previous load and the edit layers; new overlay,
\* outline and model layers are made, referenced and added; the edit layers
\* of editLayersRef are added again; updatePickEnabled().
AddEditorLayers ==
    /\ component = "MapView"
    /\ Len(overlayLayers) < MaxEditorLoads
    /\ LET n == Len(overlayLayers) + 1
           cleanOverlays ==
               [i \in 1..Len(overlayLayers) |->
                   RemoveLayerIfExists(UnselectOverlay(overlayLayers, overlayLayerRef)[i])]
           cleanOutlines ==
               [i \in 1..Len(outlineLayers) |->
                   RemoveLayerIfExists(UnselectOutline(outlineLayers, outlineLayerRef)[i])]
           cleanModels ==
               [i \in 1..Len(modelLayers) |-> RemoveLayerIfExists(modelLayers[i])]
           readded ==
               [i \in 1..Len(editLayersRef) |-> [editLayersRef[i] EXCEPT !.added = TRUE]]
       IN  /\ overlayLayers' = Append(cleanOverlays, NewSelectionLayer)
           /\ outlineLayers' = Append(cleanOutlines, NewSelectionLayer)
           /\ overlayLayerRef' = n
           /\ outlineLayerRef' = n
           /\ modelLayers' =
                  UpdateModelLayers(
                      Append(cleanModels,
                             [added |-> TRUE, pickEnabled |-> TRUE,
                              overlayLayer |-> n, outlineLayer |-> n]),
                      n, activeLayerIdRef)
           /\ modelLayerRef' = n
           /\ editLayersRef' = UpdateEditLayers(readded, activeLayerIdRef)
    /\ UNCHANGED << component, mlVars, cvsVars, ilVars, elVars, wlVars, shVars, activeLayerId,
                    activeLayerIdRef, generatedIds >>

\* The activeLayerId prop changes: the effect that copies it into
\* activeLayerIdRef, then the effect that sets every flag and unselects.
SetActiveLayerId(id) ==
    /\ component = "MapView"
    /\ id # activeLayerId
    /\ activeLayerId' = id
    /\ activeLayerIdRef' = id
    /\ modelLayers' = UpdateModelLayers(modelLayers, modelLayerRef, id)
    /\ editLayersRef' = UpdateEditLayers(editLayersRef, id)
    /\ overlayLayers' = UnselectOverlay(overlayLayers, overlayLayerRef)
    /\ outlineLayers' = UnselectOutline(outlineLayers, outlineLayerRef)
    /\ UNCHANGED << component, mlVars, cvsVars, ilVars, elVars, wlVars, shVars, overlayLayerRef,
                    outlineLayerRef, modelLayerRef, generatedIds >>

\* addEditLayer(options): null before the first style load; the new layer's
\* onPick and onPickFail keep the overlay and the outline referenced now.
AddEditLayer ==
    /\ component = "MapView"
    /\ overlayLayerRef # 0
    /\ outlineLayerRef # 0
    /\ generatedIds < MaxEditLayers
    /\ LET id == EditIds[generatedIds + 1]
       IN  editLayersRef' =
               Append(editLayersRef,
                      [id |-> id, added |-> TRUE,
                       pickEnabled |-> AddedPickEnabled(activeLayerIdRef, id),
                       overlayLayer |-> overlayLayerRef, outlineLayer |-> outlineLayerRef])
    /\ generatedIds' = generatedIds + 1
    /\ UNCHANGED << component, mlVars, cvsVars, ilVars, elVars, wlVars, shVars, activeLayerId,
                    activeLayerIdRef, overlayLayers, outlineLayers, modelLayers, overlayLayerRef,
                    outlineLayerRef, modelLayerRef >>

\* removeLayer(id) of an edit layer: unselect, remove it from the map, splice.
RemoveEditLayer(i) ==
    /\ component = "MapView"
    /\ i \in 1..Len(editLayersRef)
    /\ overlayLayers' = UnselectOverlay(overlayLayers, overlayLayerRef)
    /\ outlineLayers' = UnselectOutline(outlineLayers, outlineLayerRef)
    /\ editLayersRef' = [j \in 1..Len(editLayersRef) - 1 |->
                            IF j < i THEN editLayersRef[j] ELSE editLayersRef[j + 1]]
    /\ UNCHANGED << component, mlVars, cvsVars, ilVars, elVars, wlVars, shVars, activeLayerId,
                    activeLayerIdRef, modelLayers, overlayLayerRef, outlineLayerRef,
                    modelLayerRef, generatedIds >>

\* The object a click on a layer picks: one per layer, named after it.
ObjectOf(id) == id

\* A layer answers clicks while the map holds it and its picking is enabled.
Picking(l) == l.added /\ l.pickEnabled

\* The onPick callback that MapView gives layer l, called with `object`: the
\* overlay and the outline that the callback closed over get the object.
OnPick(l, object) ==
    [overlayLayers |->
         [overlayLayers EXCEPT ![l.overlayLayer] = AttachGizmoToObject(@, object)],
     outlineLayers |->
         [outlineLayers EXCEPT ![l.outlineLayer] = AttachObject(@, object)]]

\* A click that edit layer i answers with onPick(info).
EditLayerPick(i) ==
    /\ component = "MapView"
    /\ i \in 1..Len(editLayersRef)
    /\ Picking(editLayersRef[i])
    /\ LET after == OnPick(editLayersRef[i], ObjectOf(editLayersRef[i].id))
       IN  /\ overlayLayers' = after.overlayLayers
           /\ outlineLayers' = after.outlineLayers
    /\ UNCHANGED << component, mlVars, cvsVars, ilVars, elVars, wlVars, shVars, activeLayerId,
                    activeLayerIdRef, modelLayers, overlayLayerRef, outlineLayerRef,
                    modelLayerRef, editLayersRef, generatedIds >>

\* A click that edit layer i answers with onPickFail().
EditLayerPickFail(i) ==
    /\ component = "MapView"
    /\ i \in 1..Len(editLayersRef)
    /\ Picking(editLayersRef[i])
    /\ overlayLayers' = UnselectOverlay(overlayLayers, editLayersRef[i].overlayLayer)
    /\ outlineLayers' = UnselectOutline(outlineLayers, editLayersRef[i].outlineLayer)
    /\ UNCHANGED << component, mlVars, cvsVars, ilVars, elVars, wlVars, shVars, activeLayerId,
                    activeLayerIdRef, modelLayers, overlayLayerRef, outlineLayerRef,
                    modelLayerRef, editLayersRef, generatedIds >>

\* A click that the base model layer answers with onPick(info).
ModelLayerPick ==
    /\ component = "MapView"
    /\ modelLayerRef # 0
    /\ Picking(modelLayers[modelLayerRef])
    /\ LET after == OnPick(modelLayers[modelLayerRef], ObjectOf("models"))
       IN  /\ overlayLayers' = after.overlayLayers
           /\ outlineLayers' = after.outlineLayers
    /\ UNCHANGED << component, mlVars, cvsVars, ilVars, elVars, wlVars, shVars, activeLayerId,
                    activeLayerIdRef, modelLayers, overlayLayerRef, outlineLayerRef,
                    modelLayerRef, editLayersRef, generatedIds >>

\* ---------------------------------------------------------- specification
\* new ModelLayer(opts): opts.sun is given or not.
InitModelLayer(withSun) ==
    /\ added = FALSE
    /\ visible = TRUE
    /\ pickEnabled = TRUE
    /\ sun = withSun
    /\ tileCache = << >>
    /\ tiles = << >>
    /\ modelCache = << >>
    /\ models = << >>
    /\ tileReqs = [k \in TileKeys |-> 0]
    /\ tileEvictions = [k \in TileKeys |-> 0]
    /\ modelDls = [m \in ModelNames |-> 0]
    /\ modelEvictions = [m \in ModelNames |-> 0]

\* new CustomVectorSource(opts) with opts.maxTileCache = size, its fetcher
\* built as new TileFetcher(max).
InitSizedVectorSource(max, size) ==
    /\ MAX = max
    /\ maxTileCache = size
    /\ active = 0
    /\ queue = << >>
    /\ cvsCache = << >>
    /\ cvsTiles = << >>
    /\ workerInbox = << >>
    /\ workerOutbox = << >>

InitCustomVectorSource(max) == InitSizedVectorSource(max, MaxTileCache)

\* new InstanceLayer(opts) before onAdd and setVectorSource.
InitDetached ==
    /\ ilAdded = FALSE
    /\ ilLoading = FALSE
    /\ ilSource = FALSE
    /\ ilTileCache = [k \in TileKeys |-> NoTileData]

\* new InstanceLayer(opts) with no asset loaded and no tile prerendered; no
\* InstancedGroupMesh constructed.
InitInstanceIdle ==
    /\ ilAssets = << >>
    /\ ilFeatures = 0
    /\ ilScene = [cached |-> FALSE, groups |-> << >>]
    /\ igms = << >>
    /\ InitDetached

\* new EditLayer(opts).
InitEditLayer ==
    /\ elAdded = FALSE
    /\ elPickEnabled = TRUE
    /\ elModelCache = {}
    /\ elTiles = [k \in TileKeys |-> << >>]
    /\ elScenes = [k \in TileKeys |-> 0]

\* new WaterLayer(opts): the dirty flag starts set.
InitWaterLayer(sourceLayer) ==
    /\ wlSourceLayer = sourceLayer
    /\ wlAdded = FALSE
    /\ wlListening = FALSE
    /\ wlSource = FALSE
    /\ wlDirty = TRUE
    /\ wlRootKey = ""
    /\ wlGeometry = NoWater
    /\ wlScene = NoWater

\* No shadow matrix written yet: `out` is a new Matrix4.
InitShadowIdle ==
    /\ shSunDir = <<0, 0, 1>>
    /\ shPlaneZ = 0
    /\ shBuilt = FALSE
    /\ shMatrix = IdentityMatrix4
    /\ shImage = <<0, 0, 0, 1>>

\* MapView before its first style load, activeLayerId not given.
InitMapViewIdle ==
    /\ activeLayerId = ""
    /\ activeLayerIdRef = ""
    /\ overlayLayers = << >>
    /\ outlineLayers = << >>
    /\ modelLayers = << >>
    /\ overlayLayerRef = 0
    /\ outlineLayerRef = 0
    /\ modelLayerRef = 0
    /\ editLayersRef = << >>
    /\ generatedIds = 0

\* The components outside the one a behaviour explores, as constructed.
InitOther ==
    InitInstanceIdle /\ InitEditLayer /\ InitWaterLayer("water") /\ InitShadowIdle /\ InitMapViewIdle

\* The component a behaviour explores starts with any of its options; the
\* other one stays as constructed.
Init ==
    \/ /\ component = "ModelLayer"
       /\ \E withSun \in BOOLEAN : InitModelLayer(withSun)
       /\ InitCustomVectorSource(1)
       /\ InitOther
    \/ /\ component = "CustomVectorSource"
       /\ InitModelLayer(FALSE)
       /\ \E max \in 1..MaxFetcherMax : InitCustomVectorSource(max)
       /\ InitOther
    \/ /\ component = "EditLayer"
       /\ InitModelLayer(FALSE)
       /\ InitCustomVectorSource(1)
       /\ InitOther

Next ==
    \/ \E keys \in VisibleTileLists : Render(keys)
    \/ \E keys \in VisibleTileLists : HandleClick(keys)
    \/ \E e \in 1..MaxTileEntries, o \in ParseOutcomes : RequestResolve(e, o)
    \/ \E e \in 1..MaxTileEntries : RequestReject(e)
    \/ \E i \in 1..MaxModelEntries : DownloadResolve(i)
    \/ \E i \in 1..MaxModelEntries : TextureSettle(i)
    \/ \E i \in 1..MaxModelEntries : DownloadReject(i)
    \/ OnAdd
    \/ OnRemove
    \/ \E v \in BOOLEAN : SetVisible(v)
    \/ \E b \in BOOLEAN : SetPickEnabled(b)
    \/ SetSunPos
    \/ \E k \in TileKeys : GetTile(k)
    \/ \E e \in 1..MaxCvsEntries : FetchResolve(e)
    \/ \E e \in 1..MaxCvsEntries : FetchReject(e)
    \/ WorkerDecode
    \/ WorkerDecodeFail
    \/ WorkerMessage
    \/ ElOnAdd
    \/ ElOnRemove
    \/ \E b \in BOOLEAN : ElSetPickEnabled(b)
    \/ \E ids \in SUBSET ModelNames : AddObjectsToCache(ids)
    \/ \E id \in ModelNames, k \in TileKeys : AddObjectToScene(id, k)
    \/ \E keys \in VisibleTileLists : ElHandleClick(keys)
    \/ IlOnAdd
    \/ IlOnRemove
    \/ IlModelLoaded
    \/ IlSetVectorSource
    \/ \E keys \in VisibleTileLists : IlPrerender(keys)

Spec == Init /\ [][Next]_vars

\* CustomVectorSource on its own, every started network fetch eventually settling.
InitSource ==
    /\ component = "CustomVectorSource"
    /\ InitModelLayer(FALSE)
    /\ \E max \in 1..MaxFetcherMax : InitCustomVectorSource(max)
    /\ InitOther

NextSource ==
    \/ \E k \in TileKeys : GetTile(k)
    \/ \E e \in 1..MaxCvsEntries : FetchResolve(e)
    \/ \E e \in 1..MaxCvsEntries : FetchReject(e)
    \/ WorkerDecode
    \/ WorkerDecodeFail
    \/ WorkerMessage

LiveSpec ==
    /\ InitSource
    /\ [][NextSource]_vars
    /\ \A e \in 1..MaxCvsEntries : WF_vars(FetchResolve(e) \/ FetchReject(e))

\* InstanceLayer with every asset of objectUrls loaded and baked and the
\* covering tile's vector tile loaded, or an InstancedGroupMesh used directly.
AssetLists == UNION { [1..n -> {Bake(a) : a \in Assets}] : n \in 1..MaxAssets }

InitInstance ==
    /\ InitModelLayer(FALSE)
    /\ InitCustomVectorSource(1)
    /\ \/ /\ component = "InstanceLayer"
          /\ ilAssets \in AssetLists
          /\ ilFeatures \in 0..MaxFeatures
          /\ ilScene = [cached |-> FALSE, groups |-> << >>]
          /\ igms = << >>
          /\ InitDetached
       \/ /\ component = "InstancedGroupMesh"
          /\ InitInstanceIdle
    /\ InitEditLayer
    /\ InitWaterLayer("water")
    /\ InitShadowIdle
    /\ InitMapViewIdle

\* The instance indices a direct caller passes: one below and one above the
\* valid range included.
Indices == -1..MaxCount

NextInstance ==
    \/ ILPrerender
    \/ ILUnloadTile
    \/ \E a \in Assets, n \in 0..MaxCount : IgmConstruct(a, n)
    \/ \E i \in Indices, m \in Matrices : IgmSetMatrixAt(i, m)
    \/ \E i \in Indices, d \in UserDataValues : IgmSetUserDataAt(i, d)

InstanceSpec == InitInstance /\ [][NextInstance]_vars

\* A WaterLayer drawing from a CustomVectorSource that other layers use too.
NonEmptyTileLists == {q \in VisibleTileLists : q # << >>}

InitWater ==
    /\ component = "CustomVectorSource"
    /\ InitModelLayer(FALSE)
    /\ \E size \in 1..MaxTileCache + 1 : InitSizedVectorSource(MaxFetcherMax, size)
    /\ InitInstanceIdle
    /\ InitEditLayer
    /\ \E l \in SourceLayers : InitWaterLayer(l)
    /\ InitShadowIdle
    /\ InitMapViewIdle

NextWater ==
    \/ NextSource
    \/ WlOnAdd
    \/ WlOnRemove
    \/ WlSetVectorSource
    \/ WlMoveEnd
    \/ \E keys \in NonEmptyTileLists, o \in RebuildOutcomes :
          \E i \in 1..Len(keys) : WlPrerender(keys, keys[i], o)

WaterSpec == InitWater /\ [][NextWater]_vars

\* The shadow matrix functions applied to any of the sun directions and plane
\* heights under test.
InitShadow ==
    /\ component = "ShadowMatrix"
    /\ InitModelLayer(FALSE)
    /\ InitCustomVectorSource(1)
    /\ InitInstanceIdle
    /\ InitEditLayer
    /\ InitWaterLayer("water")
    /\ shSunDir \in SunDirs
    /\ shPlaneZ \in PlaneZs
    /\ shBuilt = FALSE
    /\ shMatrix = IdentityMatrix4
    /\ shImage = <<0, 0, 0, 1>>
    /\ InitMapViewIdle

NextShadow ==
    \/ BuildShadowMatrix
    \/ \E m \in MeshMatrices : ShadowMeshUpdate(m)
    \/ \E p \in Points : TransformPoint(p)

ShadowSpec == InitShadow /\ [][NextShadow]_vars

\* MapView: the layers it manages, from mount with any activeLayerId prop.
InitMapView ==
    /\ component = "MapView"
    /\ InitModelLayer(FALSE)
    /\ InitCustomVectorSource(1)
    /\ InitInstanceIdle
    /\ InitEditLayer
    /\ InitWaterLayer("water")
    /\ InitShadowIdle
    /\ activeLayerId \in ActiveIds(0)
    /\ activeLayerIdRef = activeLayerId
    /\ overlayLayers = << >>
    /\ outlineLayers = << >>
    /\ modelLayers = << >>
    /\ overlayLayerRef = 0
    /\ outlineLayerRef = 0
    /\ modelLayerRef = 0
    /\ editLayersRef = << >>
    /\ generatedIds = 0

NextMapView ==
    \/ AddEditorLayers
    \/ \E id \in ActiveIds(generatedIds) : SetActiveLayerId(id)
    \/ AddEditLayer
    \/ \E i \in 1..MaxEditLayers : RemoveEditLayer(i)
    \/ \E i \in 1..MaxEditLayers : EditLayerPick(i)
    \/ \E i \in 1..MaxEditLayers : EditLayerPickFail(i)
    \/ ModelLayerPick

MapViewSpec == InitMapView /\ [][NextMapView]_vars

\* ------------------------------------------------------------------ claims
Unpopulated(t) == ~t.hasObjects /\ ~t.hasScene /\ ~t.hasOTID /\ t.state # "loaded"

\* C1: no step populates an entry that has left its cache. In ModelLayer an
\* entry out of the tile cache keeps objects, sceneTile and overScaledTileID as
\* they are and does not become loaded; in CustomVectorSource an entry out of
\* the cache gets no data, does not become loaded and is not cached again, and
\* handling a worker result adds no key to the cache.
EvictedEntryNotPopulated ==
    [][ /\ \A e \in 1..Len(tiles) :
             e \notin CachedIds(tileCache) =>
               /\ tiles'[e].hasObjects = tiles[e].hasObjects
               /\ tiles'[e].hasScene = tiles[e].hasScene
               /\ tiles'[e].hasOTID = tiles[e].hasOTID
               /\ (tiles'[e].state = "loaded" => tiles[e].state = "loaded")
        /\ \A e \in 1..Len(cvsTiles) :
             e \notin CachedIds(cvsCache) =>
               /\ cvsTiles'[e].data = cvsTiles[e].data
               /\ (cvsTiles'[e].state = "loaded" => cvsTiles[e].state = "loaded")
               /\ e \notin CachedIds(cvsCache')
        /\ (Len(workerOutbox') < Len(workerOutbox) =>
              CachedIds(cvsCache') = CachedIds(cvsCache)) ]_vars

\* C1 witness: a ModelLayer entry evicted while its request was in flight, whose
\* request has since resolved, still unpopulated.
EvictedInFlightThenResolved ==
    \E e \in 1..Len(tiles) :
        /\ e \notin CachedIds(tileCache)
        /\ tiles[e].stateDownload = "disposed"
        /\ tiles[e].req = "resolved"
        /\ Unpopulated(tiles[e])

\* The same case in CustomVectorSource: the result of an evicted entry's decode
\* was handled on the main thread and the entry stayed disposed, without data.
CvsEvictedThenDelivered ==
    \E e \in 1..Len(cvsTiles) :
        /\ e \notin CachedIds(cvsCache)
        /\ cvsTiles[e].job = "delivered"
        /\ cvsTiles[e].state = "disposed"
        /\ cvsTiles[e].data = 0

\* C2: once a ModelLayer tile entry is marked disposed, no step changes its
\* state or stateDownload.
DisposedTileNeverModified ==
    [][ \A e \in 1..Len(tiles) :
          tiles[e].stateDownload = "disposed" =>
            /\ tiles'[e].state = tiles[e].state
            /\ tiles'[e].stateDownload = "disposed" ]_vars

\* C3: the number of started and unsettled jobs stays between 0 and MAX.
ActiveWithinMax == 0 <= active /\ active <= MAX /\ active = Cardinality(Fetching)

\* C3 witness: MAX jobs are in flight and another one waits in the queue.
FetcherSaturated == active = MAX /\ queue # << >>

\* C4: every submitted job is eventually started, and the fetcher ends up with
\* an empty queue, no active job and every submitted job started.
FetcherDrains ==
    /\ \A n \in 1..MaxCvsEntries : (Submitted = n) ~> (Started >= n)
    /\ <>[](queue = << >> /\ active = 0 /\ Started = Submitted)

\* C4 witness: more jobs than MAX were submitted, one of them was rejected, and
\* the fetcher has drained.
DrainedAfterRejection ==
    /\ Submitted > MAX
    /\ Started = Submitted
    /\ queue = << >> /\ active = 0
    /\ \E e \in 1..Len(cvsTiles) : cvsTiles[e].job = "fetch_failed"

\* C5: a model entry's stateDownload changes only from downloading (to loaded
\* or to disposed); loaded and disposed are final, and it becomes disposed only
\* in a step that takes it out of the model cache.
ModelStateOnlyLeavesDownloading ==
    [][ \A i \in 1..Len(models) :
          models'[i].stateDownload # models[i].stateDownload =>
            /\ models[i].stateDownload = "downloading"
            /\ (models'[i].stateDownload = "disposed" =>
                  i \in CachedIds(modelCache) /\ i \notin CachedIds(modelCache')) ]_vars

\* C6: for every model name, the downloads started so far are at most one per
\* stay of the name in the model cache.
OneDownloadPerResidency ==
    \A m \in ModelNames :
        modelDls[m] <= modelEvictions[m] + (IF Has(modelCache, m) THEN 1 ELSE 0)

FeatureModel(id) == IF id = "f2" THEN "mB" ELSE "mA"

\* C6 witness: a feature was placed from a cached, loaded model (so its tile
\* went through ensureModels in at least two render frames) and that model name
\* was downloaded once.
PlacedFromSingleDownload ==
    \E e \in 1..Len(tiles) : \E id \in {"f1", "f2", "f3"} :
        /\ HasChildNamed(tiles[e].children, id)
        /\ Has(modelCache, FeatureModel(id))
        /\ modelDls[FeatureModel(id)] = 1

TileRequestsPerResidency ==
    \A k \in TileKeys :
        tileReqs[k] <= tileEvictions[k] + (IF Has(tileCache, k) THEN 1 ELSE 0)

\* C7: a cached entry whose request failed (network or parse error) is in state
\* error, and for every tile key the requests started are at most one per stay
\* of the key in the tile cache.
FailedTileNotRetried ==
    /\ \A e \in CachedIds(tileCache) :
          tiles[e].req \in {"rejected", "parse_failed"} => tiles[e].state = "error"
    /\ TileRequestsPerResidency

\* C7 witness: an entry failed, left the cache, and its key was requested anew.
FailedTileRequestedAfterEviction ==
    \E e \in 1..Len(tiles) :
        /\ tiles[e].state = "error"
        /\ tiles[e].req \in {"rejected", "parse_failed"}
        /\ tiles[e].stateDownload = "loaded"
        /\ e \notin CachedIds(tileCache)
        /\ Has(tileCache, tiles[e].key)
        /\ tileReqs[tiles[e].key] = 2

\* C8: a CustomVectorSource entry whose fetch or decode failed is in state
\* error, if it is still cached.
CvsFailureMarksError ==
    \A e \in CachedIds(cvsCache) :
        cvsTiles[e].job \in {"fetch_failed", "decode_failed"} => cvsTiles[e].state = "error"

\* C9: a not-support entry has no scene and no feature list, no render() calls
\* populateScene on it, it stays not-support, and its key is requested at most
\* once per stay in the cache.
NotSupportIsFinal ==
    /\ [](\A e \in 1..Len(tiles) :
            tiles[e].state = "not-support" =>
              /\ ~tiles[e].hasScene /\ ~tiles[e].hasObjects
              /\ \A keys \in VisibleTileLists : e \notin PopulateCalls(keys))
    /\ [][ \A e \in 1..Len(tiles) :
             tiles[e].state = "not-support" => tiles'[e].state = "not-support" ]_vars
    /\ [](\A k \in TileKeys :
            tileReqs[k] <= tileEvictions[k] + (IF Has(tileCache, k) THEN 1 ELSE 0))

\* C9 witness: a cached not-support entry.
NotSupportCached ==
    \E e \in CachedIds(tileCache) :
        tiles[e].state = "not-support" /\ tiles[e].req = "resolved"

\* C10: whatever the covering tiles, every entry that render() draws or that
\* handleClick ray-tests is loaded and has its overscaled tile id.
OnlyLoadedTilesDrawnOrPicked ==
    \A keys \in VisibleTileLists :
        /\ \A e \in RenderPass(keys) : tiles[e].state = "loaded" /\ tiles[e].hasOTID
        /\ \A e \in RayTests(keys) : tiles[e].state = "loaded" /\ tiles[e].hasOTID

\* C10 witness: with the layer added, visible and pickable, a cached loaded
\* tile is drawn by render() and ray-tested by a click.
LoadedTileDrawnAndPicked ==
    /\ added /\ visible /\ pickEnabled
    /\ \E keys \in VisibleTileLists :
          \E e \in CachedIds(tileCache) : e \in RenderPass(keys) /\ e \in RayTests(keys)

\* The feature ids of a tile entry's key.
FeatureIds(k) == {TileObjects(k)[i].id : i \in 1..Len(TileObjects(k))}

\* Number of children of the scene named n.
CountNamed(children, n) == Cardinality({i \in 1..Len(children) : children[i] = n})

\* C11: a tile's scene holds at most one placement per feature id, and every
\* placement a render() makes is of a feature whose model cache entry is
\* loaded at the moment the clone is added.
OnePlacementPerLoadedFeature ==
    /\ \A e \in 1..Len(tiles) :
          \A n \in FeatureIds(tiles[e].key) : CountNamed(tiles[e].children, n) <= 1
    /\ \A keys \in VisibleTileLists :
          \A p \in Placements(keys) : p.model = "loaded"

\* C11 witness: a cached tile holds a placement and is about to be handed to
\* populateScene again by the next render().
PlacedTileRenderedAgain ==
    /\ added /\ visible
    /\ \E e \in CachedIds(tileCache) :
          /\ \E n \in FeatureIds(tiles[e].key) : CountNamed(tiles[e].children, n) = 1
          /\ \E keys \in VisibleTileLists : e \in PopulateCalls(keys)

\* The features of a loaded tile that populateScene would place: the model is
\* cached and loaded and the scene has no child of that id.
Placeable(e) ==
    {i \in 1..Len(TileObjects(tiles[e].key)) :
        LET o == TileObjects(tiles[e].key)[i] IN
        /\ ModelReady(modelCache, models, o.modelName)
        /\ ~HasChildNamed(tiles[e].children, o.id)}

\* C12: the early return of populateScene is never taken on a loaded tile
\* that has a feature whose model is loaded and which has no placement yet.
EarlyReturnOnlyWhenPopulated ==
    \A e \in CachedIds(tileCache) :
        (RenderEligible(tiles[e]) /\ tiles[e].hasObjects /\ Placeable(e) # {})
            => ~AlreadyPopulated(tiles[e])

\* The count distribute should give the k-th asset of N for M features.
EvenShare(N, M, k) == (M \div N) + (IF k <= M % N THEN 1 ELSE 0)

RECURSIVE SumSeq(_)
SumSeq(q) == IF q = << >> THEN 0 ELSE Head(q) + SumSeq(Tail(q))

\* C13: every instance index prerender passes to setUserDataAt / setMatrixAt
\* is at least 0 and below the count its group was constructed with.
InstanceIndexWithinCapacity ==
    \A c \in PrerenderCalls :
        /\ 0 <= c.index
        /\ c.index < Prerendered(ilAssets, ilFeatures).groups[c.group].count

\* C14: distribute gives counts that sum to the number of features, the first
\* (M mod N) assets getting floor(M/N) + 1 and the others floor(M/N).
DistributeIsEven ==
    Len(ilAssets) > 0 =>
      LET counts == Distribute(Len(ilAssets), ilFeatures) IN
      /\ SumSeq(counts) = ilFeatures
      /\ \A k \in 1..Len(ilAssets) : counts[k] = EvenShare(Len(ilAssets), ilFeatures, k)
      /\ ilScene.cached /\ ilFeatures > 0 =>
            \A k \in 1..Len(ilAssets) :
                ilScene.groups[k].count = EvenShare(Len(ilAssets), ilFeatures, k)

\* C15: setMatrixAt(i, M) with 0 <= i < count stores, for every mesh of the
\* asset, M composed with the mesh's local-to-root transform in the slot of
\* that (i, mesh) pair; the slot lies inside the key's buffer and no two
\* pairs have the same slot.
SetMatrixAtWritesWorldTransforms ==
    /\ [](\A g \in {igms[x] : x \in 1..Len(igms)} : \A c \in 1..Len(g.collect) :
            LET len == Len(g.collect[c].meshes) IN
            \A i1, i2 \in 0..(g.count - 1) : \A j1, j2 \in 0..(len - 1) :
               /\ SlotOf(len, i1, j1) \in 0..(len * g.count - 1)
               /\ Len(g.buffers[c]) = len * g.count
               /\ (SlotOf(len, i1, j1) = SlotOf(len, i2, j2) => i1 = i2 /\ j1 = j2))
    /\ [][ \A i \in Indices, m \in Matrices :
             (IgmSetMatrixAt(i, m) /\ 0 <= i /\ i < igms[1].count) =>
                \A c \in 1..Len(igms[1].collect) :
                   LET meshes == igms[1].collect[c].meshes IN
                   \A j \in 1..Len(meshes) :
                      igms'[1].buffers[c][SlotOf(Len(meshes), i, j - 1) + 1]
                         = Compose(m, LocalToRoot(meshes[j])) ]_vars

\* C16: setUserDataAt outside 0..count-1 leaves the metadata alone and
\* getUserDataAt there returns null; inside the range a set is read back by
\* getUserDataAt and changes no other index.
UserDataBoundsChecked ==
    /\ [](\A g \in {igms[x] : x \in 1..Len(igms)} :
            /\ Len(g.userData) = g.count
            /\ \A i \in Indices : (i < 0 \/ i >= g.count) => GetUserDataAt(g, i) = "null")
    /\ [][ \A i \in Indices, d \in UserDataValues :
             IgmSetUserDataAt(i, d) =>
                IF i < 0 \/ i >= igms[1].count
                THEN igms'[1].userData = igms[1].userData
                ELSE /\ GetUserDataAt(igms'[1], i) = d
                     /\ \A j \in 0..(igms[1].count - 1) :
                           j # i => GetUserDataAt(igms'[1], j) = GetUserDataAt(igms[1], j) ]_vars

\* C16 witness: two indices of one mesh hold different values, each set by a
\* setUserDataAt call.
UserDataSetAtTwoIndices ==
    /\ igms # << >>
    /\ igms[1].count = MaxCount
    /\ GetUserDataAt(igms[1], 0) = "d1"
    /\ GetUserDataAt(igms[1], MaxCount - 1) = "d2"

\* C17: the hit handed to onPick has the least distance among the scanned
\* tiles whose ray test resolves to a placement root, and it comes from the
\* first such tile in covering order that has that distance.
PickIsNearestEarliest ==
    \A c \in Clicks :
        LET out == Click(c.enabled, c.scan, c.rays) IN
        out.calls = << "onPick" >> =>
          /\ out.best.tile \in Resolved(c)
          /\ out.best.dist = c.rays[out.best.tile].dist
          /\ \A i \in Resolved(c) :
                /\ out.best.dist <= c.rays[i].dist
                /\ c.rays[i].dist = out.best.dist => out.best.tile <= i

\* C17 witness: a click meets a placement in two tiles at the same distance
\* and the earlier tile's hit is handed to onPick; another click meets a
\* strictly nearer placement in the later tile, which is handed to onPick.
TieAndNearerLaterTile ==
    /\ \E c \in Clicks :
          /\ Resolved(c) = {1, 2} /\ c.rays[1].dist = c.rays[2].dist
          /\ Click(c.enabled, c.scan, c.rays).best.tile = 1
    /\ \E c \in Clicks :
          /\ Resolved(c) = {1, 2} /\ c.rays[2].dist < c.rays[1].dist
          /\ Click(c.enabled, c.scan, c.rays).best.tile = 2

\* C18 (as stated): every click on the map while the layer is added calls
\* exactly one callback, onPick if a scanned tile resolves to a placement root
\* and onPickFail otherwise.
OneCallbackPerClickWhileAdded ==
    \A c \in Clicks :
        LET calls == Click(c.enabled, c.scan, c.rays).calls IN
        /\ Len(calls) = 1
        /\ calls = << "onPick" >> <=> Resolved(c) # {}

\* C18 (amended): a click while the layer is added, visible and pick-enabled
\* calls exactly one callback, onPick if a scanned tile resolves to a
\* placement root and onPickFail otherwise; a click on a hidden layer or one
\* whose picking is disabled calls neither.
OneCallbackPerEnabledClick ==
    \A c \in Clicks :
        LET calls == Click(c.enabled, c.scan, c.rays).calls IN
        IF c.enabled
        THEN /\ Len(calls) = 1
             /\ calls = << "onPick" >> <=> Resolved(c) # {}
             /\ calls = << "onPickFail" >> <=> Resolved(c) = {}
        ELSE calls = << >>

\* C18 witness: the layer is pick-enabled and has a scene in which one click
\* resolves to a placement (onPick) and another meets only a shadow mesh
\* (onPickFail).
PickAndPickFailReachable ==
    /\ \E c \in Clicks :
          c.enabled /\ Click(c.enabled, c.scan, c.rays).calls = << "onPick" >>
    /\ \E c \in Clicks :
          /\ c.enabled /\ \E i \in 1..Len(c.rays) : c.rays[i] # NoHit
          /\ Click(c.enabled, c.scan, c.rays).calls = << "onPickFail" >>

\* C19: the object handed to onPick is flagged as a placement root and is the
\* intersected primitive or one of its ancestors; it is not the primitive
\* mesh, a shadow mesh or the scene.
PickedObjectIsPlacementRoot ==
    \A c \in Clicks :
        LET out == Click(c.enabled, c.scan, c.rays) IN
        out.calls = << "onPick" >> =>
          LET t == out.best.tile
              chain == Ancestry(c.scan[t].children, c.rays[t])
          IN  /\ \E n \in 1..Len(chain) : chain[n] = out.best.node
              /\ out.best.node.kind = "root"
              /\ IsModelRoot(c.scan[t].children, out.best.node.child)

\* C19 witness: a click meets a mesh of a placed clone and onPick gets the
\* clone.
CloneMeshPicked ==
    \E c \in Clicks :
        LET out == Click(c.enabled, c.scan, c.rays) IN
        /\ out.calls = << "onPick" >>
        /\ Head(Ancestry(c.scan[out.best.tile].children, c.rays[out.best.tile])).kind = "mesh"
        /\ out.best.node.kind = "root"

\* C20: a prerender that runs with the dirty flag set and finds a covering
\* tile that is not loaded leaves the flag set and leaves the water scene,
\* the merged geometry and the root tile key as they were.
NotReadyKeepsDirtyAndWater ==
    [][ \A keys \in NonEmptyTileLists, o \in RebuildOutcomes : \A i \in 1..Len(keys) :
          (/\ WlPrerender(keys, keys[i], o)
           /\ \E n \in 1..Len(keys) : WaterTiles(CvsState, keys).states[n] # "loaded")
            => /\ wlDirty'
               /\ wlScene' = wlScene
               /\ wlGeometry' = wlGeometry
               /\ wlRootKey' = wlRootKey ]_vars

\* C20 witness: after a rebuild drew water and a map move set the flag again,
\* a prerender found a tile that is not loaded: the flag is still set, the
\* water of the earlier rebuild is still there and the new tile is preparing.
WaterKeptWhileTileLoads ==
    /\ wlAdded /\ wlSource /\ wlDirty
    /\ wlRootKey # "" /\ wlScene # NoWater
    /\ \E e \in CachedIds(cvsCache) : cvsTiles[e].state = "preparing"
    /\ \E e \in 1..Len(cvsTiles) : cvsTiles[e].state = "loaded"

\* C21: a prerender whose rebuild throws (in the merge or while a mesh is
\* built) leaves the dirty flag set, so that a later prerender retries; the
\* flag is cleared only by a rebuild that completes.
DirtyClearedOnlyBySuccessfulRebuild ==
    [][ \A keys \in NonEmptyTileLists, o \in RebuildOutcomes : \A i \in 1..Len(keys) :
          (WlPrerender(keys, keys[i], o) /\ o # "ok") => wlDirty' ]_vars

\* The points of a ring moved by dx along x.
Shifted(ring, dx) == [n \in 1..Len(ring) |-> << ring[n][1] + dx, ring[n][2] >>]

\* C22: a rebuild that collects exactly one polygon from its covering tiles
\* makes the merged geometry that polygon, moved by its tile's offset from the
\* root tile, each ring closed: a ring whose first and last point are equal is
\* kept as it is, any other ring gets a copy of its first point appended, and
\* closing the result again changes nothing.
SinglePolygonIsIdentity ==
    [][ \A keys \in NonEmptyTileLists, o \in RebuildOutcomes : \A i \in 1..Len(keys) :
          (/\ WlPrerender(keys, keys[i], o)
           /\ \A n \in 1..Len(keys) : WaterTiles(CvsState, keys).states[n] = "loaded"
           /\ PolygonCount(keys) = 1)
            => \E n \in 1..Len(keys) : \E p \in TileWater(keys[n]) :
                 LET dx == (TileX(keys[n]) - TileX(keys[i])) * TILE_EXTENT
                     in == Polygons[p]
                 IN  \E out \in wlGeometry' :
                       /\ wlGeometry' = {out}
                       /\ Len(out) = Len(in)
                       /\ \A r \in 1..Len(in) :
                            LET moved == Shifted(in[r], dx) IN
                            /\ out[r][1] = out[r][Len(out[r])]
                            /\ moved[1] = moved[Len(moved)] => out[r] = moved
                            /\ moved[1] # moved[Len(moved)] => out[r] = moved \o << moved[1] >>
                            /\ CloseRing(out[r]) = out[r] ]_vars

\* C22 witness: the layer drew one polygon that lies in a tile next to the
\* root tile; its closed outer ring was moved by one tile extent and kept, and
\* its open hole was moved and closed.
SinglePolygonFromNeighbourTile ==
    /\ wlSourceLayer = "lake" /\ wlRootKey = "t1" /\ ~wlDirty
    /\ \E out \in wlGeometry :
         /\ wlGeometry = {out}
         /\ out[1] = Shifted(Polygons.p3[1], TILE_EXTENT)
         /\ out[2] = Shifted(Polygons.p3[2], TILE_EXTENT) \o << << 1 + TILE_EXTENT, 1 >> >>

\* C23: no tile key gets a second scene while its entry exists. A ModelLayer
\* tile entry has its sceneTile assigned at most once, and at most one scene
\* was created for a key of the InstanceLayer's or the EditLayer's tile map
\* since the key last had no entry; a key without an entry has no scene.
AtMostOneScenePerTile ==
    /\ \A e \in 1..Len(tiles) :
         /\ tiles[e].scenes <= 1
         /\ tiles[e].hasScene <=> tiles[e].scenes = 1
    /\ \A k \in TileKeys :
         /\ ilTileCache[k].scenes <= 1
         /\ elScenes[k] <= 1
         /\ elScenes[k] = 1 <=> ~SceneMissing(elTiles, k)

\* C23 witness: the InstanceLayer holds one scene with instanced groups for
\* t1, whose source entry is cached and loaded, after the source evicted a
\* loaded entry of t1: the scene was built again for the key only after the
\* eviction removed it.
SceneRebuiltAfterEviction ==
    /\ ilTileCache["t1"].scenes = 1
    /\ ilTileCache["t1"].groups # << >>
    /\ \E e \in CachedIds(cvsCache) : cvsTiles[e].key = "t1" /\ cvsTiles[e].state = "loaded"
    /\ \E e \in 1..Len(cvsTiles) :
         /\ e \notin CachedIds(cvsCache)
         /\ cvsTiles[e].key = "t1" /\ cvsTiles[e].state = "loaded"

\* C28: every tile key that has a scene in the InstanceLayer's tile map is in
\* the tile cache of the layer's vector source.
InstanceScenesFollowSourceCache ==
    \A k \in TileKeys : ilTileCache[k] # NoTileData => Has(cvsCache, k)

\* C28 witness: the source evicted a loaded t1 to make room for t2, the layer
\* has no scene for t1 any more, and it has built one for t2.
SceneRemovedWithEvictedTile ==
    /\ ilTileCache["t1"] = NoTileData
    /\ ilTileCache["t2"].scenes = 1
    /\ ~Has(cvsCache, "t1")
    /\ \E e \in 1..Len(cvsTiles) : cvsTiles[e].key = "t1" /\ cvsTiles[e].state = "loaded"

\* C27: the decode result an entry holds is the one its own getTile call
\* requested; a result whose entry was evicted never populates a newer entry
\* of the same key.
ResultAppliedToRequestingEntry ==
    \A e \in 1..Len(cvsTiles) : cvsTiles[e].data # 0 => cvsTiles[e].data = e

\* C25: a prerender pass that clears the dirty flag leaves in the water scene
\* only meshes of polygons of that pass's covering tiles, to be drawn under
\* that pass's root tile key; the scene is empty when those tiles hold no
\* water polygon.
SceneShowsOnlyThisPassWater ==
    [][ \A keys \in NonEmptyTileLists, o \in RebuildOutcomes : \A i \in 1..Len(keys) :
          (WlPrerender(keys, keys[i], o) /\ ~wlDirty')
            => /\ wlRootKey' = keys[i]
               /\ wlScene' \subseteq PolygonsToMerge(keys, keys[i])
               /\ PolygonCount(keys) = 0 => wlScene' = NoWater ]_vars

\* C26: a scanned tile whose ray test intersects a primitive below a placement
\* root, as its nearest hit or behind a nearer one, contributes a pick
\* candidate: the click calls onPick with a hit no farther than that primitive.
EveryRootHitIsCandidate ==
    \A c \in Clicks :
        c.enabled =>
          \A i \in 1..Len(c.scan) :
            \A h \in {c.rays[i]} \cup FartherHits(c.scan[i].children, c.rays[i]) :
              (h # NoHit /\ IsModelRoot(c.scan[i].children, h.child)) =>
                LET out == Click(c.enabled, c.scan, c.rays) IN
                /\ out.calls = << "onPick" >>
                /\ out.best.dist <= h.dist

\* C24: for a sun direction with a vertical component, the matrix written by
\* buildShadowMatrix or by MaplibreShadowMesh.update maps every point to a
\* point whose z, after the division by w, is planeZ.
ShadowLandsOnPlane ==
    (shBuilt /\ shSunDir[3] # 0) =>
      \A p \in Points :
        LET q == ApplyMatrix4(shMatrix, p) IN
        q[4] # 0 /\ q[3] = shPlaneZ * q[4]

\* C29: a pick reported by an edit layer leaves the picked object attached to
\* the OverlayLayer and the OutlineLayer that the references hold and the map
\* has at that moment, also when a style load has made new ones and added the
\* edit layer again.
PickAttachesToCurrentLayers ==
    \A i \in 1..Len(editLayersRef) :
        Picking(editLayersRef[i]) =>
          LET object == ObjectOf(editLayersRef[i].id)
              after == OnPick(editLayersRef[i], object)
          IN  /\ after.overlayLayers[overlayLayerRef].added
              /\ after.overlayLayers[overlayLayerRef].currentObject = object
              /\ after.outlineLayers[outlineLayerRef].added
              /\ after.outlineLayers[outlineLayerRef].currentObject = object

\* The layers whose picking is enabled, among the base model layer and the
\* edit layers.
PickEnabledLayers ==
    (IF modelLayerRef # 0 /\ modelLayers[modelLayerRef].pickEnabled THEN {"models"} ELSE {})
      \cup {editLayersRef[i].id : i \in {j \in 1..Len(editLayersRef) : editLayersRef[j].pickEnabled}}

\* The layers that answer a click with a pick callback.
ClickResponders ==
    (IF modelLayerRef # 0 /\ Picking(modelLayers[modelLayerRef]) THEN {"models"} ELSE {})
      \cup {editLayersRef[i].id : i \in {j \in 1..Len(editLayersRef) : Picking(editLayersRef[j])}}

\* C30: after every change of the active layer, every addition of an edit
\* layer and every style load, at most one layer among the base model layer
\* and the edit layers has picking enabled, and at most one layer answers a
\* click.
AtMostOnePickingLayer ==
    /\ Cardinality(PickEnabledLayers) <= 1
    /\ Cardinality(ClickResponders) <= 1

\* Two edit layers exist, a style load has re-created the editor layers since
\* the first of them was added, and one of the edit layers is the active one.
EditLayerActiveAfterReload ==
    /\ Len(editLayersRef) = 2
    /\ editLayersRef[1].overlayLayer < overlayLayerRef
    /\ PickEnabledLayers = {editLayersRef[2].id}

====
